---- MODULE Spec2Model ----
(***************************************************************************)
(* A model of the Hiesenoether interpreter: the energy ledger              *)
(* (src/src/energy.py), the value wrappers (src/src/values.py) and the     *)
(* statement/expression evaluator (src/src/runtime.py).                    *)
(*                                                                         *)
(* The interpreter is a synchronous depth-first tree walk, so a top-level  *)
(* statement of Runtime.run is one step of the model: exec_stmt followed   *)
(* by check_invariants.  The statement executor and the expression         *)
(* evaluator are recursive operators over a record holding the fields of   *)
(* Runtime and of its EnergySystem.  A raised Python exception is the      *)
(* field err of that record: once set, every operator passes the record    *)
(* on unchanged, which is the exception unwinding to Runtime.run.          *)
(***************************************************************************)
EXTENDS Integers, Sequences, FiniteSets, TLC

(***************************************************************************)
(* Bounds of the model.                                                    *)
(***************************************************************************)
\* Top-level statements executed by one run.
MaxStmts == 6
\* While-iterations plus function calls one top-level statement may make.
MaxFuel == 8

(***************************************************************************)
(* Host values.  Numbers are integers; a Python bool is the integer 0/1    *)
(* with its own tag (bool is a subclass of int: True == 1, True + 1 == 2). *)
(* None occurs only as Runtime.return_value, as a call's raw result and as *)
(* EnergyEscrow.last_output.  String literals are not part of the modelled *)
(* programs.                                                               *)
(***************************************************************************)
None == [t |-> "none"]
Num(n) == [t |-> "num", v |-> n]
Bool(b) == [t |-> "bool", v |-> IF b THEN 1 ELSE 0]

IsNumeric(a) == a.t \in {"num", "bool"}

\* Python truthiness of a value (if/while/assert/invariant, and, or, not).
Truthy(a) ==
    IF IsNumeric(a) THEN a.v # 0
    ELSE IF a.t = "none" THEN FALSE
    ELSE TRUE

\* Python ==.  Function is a dataclass, compared field by field.
PyEq(a, b) ==
    IF IsNumeric(a) /\ IsNumeric(b) THEN a.v = b.v
    ELSE IF a.t # b.t THEN FALSE
    ELSE IF a.t = "none" THEN TRUE
    ELSE a = b

\* Python a % b for b # 0: the result has the sign of the divisor.
PyMod(a, b) == IF b > 0 THEN a % b ELSE -((-a) % (-b))

\* The result of an operation that may raise: err = "" when it did not.
Ok(v) == [err |-> "", v |-> v]
Raise(msg) == [err |-> msg, v |-> None]

\* Python a + b.
PyAdd(a, b) ==
    IF IsNumeric(a) /\ IsNumeric(b) THEN Ok(Num(a.v + b.v))
    ELSE Raise("TypeError")

\* The table `ops` of Runtime.eval_expr applied to two evaluated operands.
\* The quotient of / is a float in Python; the model represents it only
\* when it is integral (10 / 2 == 5.0 == 5).
apply_binary(op, a, b) ==
    IF op \in {"==", "!="} THEN
        Ok(Bool(IF op = "==" THEN PyEq(a, b) ELSE ~PyEq(a, b)))
    ELSE IF op = "and" THEN Ok(IF Truthy(a) THEN b ELSE a)
    ELSE IF op = "or" THEN Ok(IF Truthy(a) THEN a ELSE b)
    ELSE IF op \notin {"+", "-", "*", "/", "%", "<", ">", "<=", ">="} THEN
        Raise("Unknown operator")
    ELSE IF ~(IsNumeric(a) /\ IsNumeric(b)) THEN Raise("TypeError")
    ELSE IF op = "+" THEN Ok(Num(a.v + b.v))
    ELSE IF op = "-" THEN Ok(Num(a.v - b.v))
    ELSE IF op = "*" THEN Ok(Num(a.v * b.v))
    ELSE IF op = "<" THEN Ok(Bool(a.v < b.v))
    ELSE IF op = ">" THEN Ok(Bool(a.v > b.v))
    ELSE IF op = "<=" THEN Ok(Bool(a.v <= b.v))
    ELSE IF op = ">=" THEN Ok(Bool(a.v >= b.v))
    ELSE IF b.v = 0 THEN Raise("ZeroDivisionError")
    ELSE IF op = "%" THEN Ok(Num(PyMod(a.v, b.v)))
    ELSE IF PyMod(a.v, b.v) = 0
        THEN Ok(Num(IF b.v > 0 THEN a.v \div b.v ELSE (-a.v) \div (-b.v)))
        ELSE Raise("Unmodelled: non-integral quotient")

\* The unary operators of Runtime.eval_expr.
apply_unary(op, a) ==
    IF op = "not" THEN Ok(Bool(~Truthy(a)))
    ELSE IF op # "-" THEN Raise("Unknown unary operator")
    ELSE IF IsNumeric(a) THEN Ok(Num(-a.v))
    ELSE Raise("TypeError")

(***************************************************************************)
(* The value wrappers of src/src/values.py.                                *)
(***************************************************************************)
UnstableValue(value) ==
    [t |-> "UnstableValue", base_value |-> value, access_count |-> 0,
     is_stable |-> FALSE]

StableValue(value) == [t |-> "StableValue", value |-> value]

\* The closure field (a copy of the globals taken at declaration) is never
\* read by the interpreter and is left out.
Function(name, params, body, is_pure, is_unstable) ==
    [t |-> "Function", name |-> name, params |-> params, body |-> body,
     is_pure |-> is_pure, is_unstable |-> is_unstable]

IsWrapper(var) == var.t \in {"UnstableValue", "StableValue"}

\* A get that counts the read and returns the base all the same: the
\* variant a drifting read excludes.
value_get_flat(var) ==
    IF var.t = "StableValue" THEN [err |-> "", v |-> var.value, var |-> var]
    ELSE IF var.is_stable THEN [err |-> "", v |-> var.base_value, var |-> var]
    ELSE [err |-> "", v |-> var.base_value,
          var |-> [var EXCEPT !.access_count = @ + 1]]

\* UnstableValue.get and StableValue.get: the value read and the wrapper
\* after the read.  base_value + access_count raises TypeError for a base
\* that is not a number, before access_count is advanced.
value_get(var) ==
    IF var.t = "StableValue" THEN [err |-> "", v |-> var.value, var |-> var]
    ELSE IF var.is_stable THEN [err |-> "", v |-> var.base_value, var |-> var]
    ELSE LET current == PyAdd(var.base_value, Num(var.access_count))
         IN  IF current.err # "" THEN [err |-> current.err, v |-> None, var |-> var]
             ELSE [err |-> "", v |-> current.v,
                   var |-> [var EXCEPT !.access_count = @ + 1]]

\* A stabilize that freezes the base and forgets the reads made so far:
\* the variant freezing at the next read's value excludes.
value_stabilize_base(var) ==
    IF var.t = "StableValue" \/ var.is_stable THEN [err |-> "", var |-> var]
    ELSE [err |-> "", var |-> [var EXCEPT !.is_stable = TRUE]]

\* UnstableValue.stabilize and StableValue.stabilize.
value_stabilize(var) ==
    IF var.t = "StableValue" \/ var.is_stable THEN [err |-> "", var |-> var]
    ELSE LET current == PyAdd(var.base_value, Num(var.access_count))
         IN  IF current.err # "" THEN [err |-> current.err, var |-> var]
             ELSE [err |-> "",
                   var |-> [var EXCEPT !.base_value = current.v,
                                       !.is_stable = TRUE]]

(***************************************************************************)
(* The energy ledger, src/src/energy.py.  Every operator takes the record  *)
(* s of the interpreter's fields and returns the record after the call,    *)
(* with the call's return value where it has one.                          *)
(***************************************************************************)
COSTS ==
    [stabilize |-> 5, stable_var |-> 5, declare_fn |-> 3,
     declare_pure_fn |-> 3, declare_unstable_fn |-> 1, inspect |-> 2,
     invariant |-> 10, assert |-> 1, stable_if |-> 3, stable_while |-> 3]

GAINS == [pure_fn_proof |-> 4, unstable_fn_call |-> 4]

REMOVAL_GAINS == [invariants |-> 20, stable_control |-> 15, inspection |-> 10]

\* The penalty of a second call that repeats the first call's output.
penalty == 6

\* A set_initial_energy that also forgets the removed capabilities: the
\* variant a permanent removal excludes.
set_initial_energy_fresh(s, amount) ==
    [s EXCEPT !.current_energy = amount, !.max_energy = amount,
              !.removed_capabilities = {}]

\* EnergySystem.set_initial_energy
set_initial_energy(s, amount) ==
    [s EXCEPT !.current_energy = amount, !.max_energy = amount]

\* EnergySystem.check_cost: COSTS.get(operation, 0)
check_cost(operation) ==
    IF operation \in DOMAIN COSTS THEN COSTS[operation] ELSE 0

\* A spend that deducts without comparing: the variant the availability
\* check excludes.
spend_unchecked(s, operation) ==
    [s |-> [s EXCEPT !.current_energy = @ - check_cost(operation)],
     ret |-> TRUE]

\* EnergySystem.spend
spend(s, operation) ==
    LET cost == check_cost(operation)
    IN  IF s.current_energy >= cost
        THEN [s |-> [s EXCEPT !.current_energy = @ - cost], ret |-> TRUE]
        ELSE [s |-> s, ret |-> FALSE]

\* A fresh EnergyEscrow: the dataclass defaults.
EnergyEscrow(function_name, amount) ==
    [function_name |-> function_name, amount |-> amount, released |-> FALSE,
     call_count |-> 0, last_output |-> None]

\* A create_escrow that keeps the escrow a name already has: the variant
\* the replacement on redeclaration excludes.
create_escrow_kept(s, function_name, is_unstable) ==
    IF is_unstable /\ function_name \notin DOMAIN s.escrows
    THEN [s EXCEPT !.escrows =
            [n \in DOMAIN s.escrows \cup {function_name} |->
                IF n = function_name
                THEN EnergyEscrow(function_name, GAINS.unstable_fn_call)
                ELSE s.escrows[n]]]
    ELSE s

\* EnergySystem.create_escrow
create_escrow(s, function_name, is_unstable) ==
    IF is_unstable
    THEN [s EXCEPT !.escrows =
            [n \in DOMAIN s.escrows \cup {function_name} |->
                IF n = function_name
                THEN EnergyEscrow(function_name, GAINS.unstable_fn_call)
                ELSE s.escrows[n]]]
    ELSE s

\* Variants of release_escrow that differ from it in one branch each.
\* The first call marks the escrow released and credits nothing.
release_escrow_uncredited(s, function_name, output) ==
    IF function_name \notin DOMAIN s.escrows THEN [s |-> s, ret |-> 0]
    ELSE
    LET counted == [s.escrows[function_name] EXCEPT !.call_count = @ + 1]
    IN  IF counted.call_count = 1 THEN
            [s |-> [s EXCEPT
                      !.escrows[function_name] =
                          [counted EXCEPT !.last_output = output,
                                          !.released = TRUE]],
             ret |-> 0]
        ELSE IF counted.call_count = 2 /\ PyEq(output, counted.last_output) THEN
            [s |-> [s EXCEPT !.escrows[function_name] = counted,
                             !.current_energy = @ - penalty],
             ret |-> -penalty]
        ELSE [s |-> [s EXCEPT !.escrows[function_name] = counted], ret |-> 0]

\* The penalty is taken only when current_energy covers it.
release_escrow_affordable(s, function_name, output) ==
    IF function_name \notin DOMAIN s.escrows THEN [s |-> s, ret |-> 0]
    ELSE
    LET counted == [s.escrows[function_name] EXCEPT !.call_count = @ + 1]
    IN  IF counted.call_count = 1 THEN
            [s |-> [s EXCEPT
                      !.escrows[function_name] =
                          [counted EXCEPT !.last_output = output,
                                          !.released = TRUE],
                      !.current_energy = @ + counted.amount],
             ret |-> counted.amount]
        ELSE IF /\ counted.call_count = 2
                /\ PyEq(output, counted.last_output)
                /\ s.current_energy >= penalty THEN
            [s |-> [s EXCEPT !.escrows[function_name] = counted,
                             !.current_energy = @ - penalty],
             ret |-> -penalty]
        ELSE [s |-> [s EXCEPT !.escrows[function_name] = counted], ret |-> 0]

\* The penalty is taken on every repeat of the recorded output, not only
\* on the second call.
release_escrow_repeated(s, function_name, output) ==
    IF function_name \notin DOMAIN s.escrows THEN [s |-> s, ret |-> 0]
    ELSE
    LET counted == [s.escrows[function_name] EXCEPT !.call_count = @ + 1]
    IN  IF counted.call_count = 1 THEN
            [s |-> [s EXCEPT
                      !.escrows[function_name] =
                          [counted EXCEPT !.last_output = output,
                                          !.released = TRUE],
                      !.current_energy = @ + counted.amount],
             ret |-> counted.amount]
        ELSE IF counted.call_count >= 2 /\ PyEq(output, counted.last_output) THEN
            [s |-> [s EXCEPT !.escrows[function_name] = counted,
                             !.current_energy = @ - penalty],
             ret |-> -penalty]
        ELSE [s |-> [s EXCEPT !.escrows[function_name] = counted], ret |-> 0]

\* The payout of the first call lifts the ceiling as well: the variant the
\* frame of max_energy excludes.
release_escrow_raising(s, function_name, output) ==
    IF function_name \notin DOMAIN s.escrows THEN [s |-> s, ret |-> 0]
    ELSE
    LET counted == [s.escrows[function_name] EXCEPT !.call_count = @ + 1]
    IN  IF counted.call_count = 1 THEN
            [s |-> [s EXCEPT
                      !.escrows[function_name] =
                          [counted EXCEPT !.last_output = output,
                                          !.released = TRUE],
                      !.current_energy = @ + counted.amount,
                      !.max_energy = @ + counted.amount],
             ret |-> counted.amount]
        ELSE IF counted.call_count = 2 /\ PyEq(output, counted.last_output) THEN
            [s |-> [s EXCEPT !.escrows[function_name] = counted,
                             !.current_energy = @ - penalty],
             ret |-> -penalty]
        ELSE [s |-> [s EXCEPT !.escrows[function_name] = counted], ret |-> 0]

\* The payout comes again on the third call: the variant a single credit
\* per declaration excludes.
release_escrow_renewed(s, function_name, output) ==
    IF function_name \notin DOMAIN s.escrows THEN [s |-> s, ret |-> 0]
    ELSE
    LET counted == [s.escrows[function_name] EXCEPT !.call_count = @ + 1]
    IN  IF counted.call_count \in {1, 3} THEN
            [s |-> [s EXCEPT
                      !.escrows[function_name] =
                          [counted EXCEPT !.last_output = output,
                                          !.released = TRUE],
                      !.current_energy = @ + counted.amount],
             ret |-> counted.amount]
        ELSE IF counted.call_count = 2 /\ PyEq(output, counted.last_output) THEN
            [s |-> [s EXCEPT !.escrows[function_name] = counted,
                             !.current_energy = @ - penalty],
             ret |-> -penalty]
        ELSE [s |-> [s EXCEPT !.escrows[function_name] = counted], ret |-> 0]

\* EnergySystem.release_escrow
release_escrow(s, function_name, output) ==
    IF function_name \notin DOMAIN s.escrows THEN [s |-> s, ret |-> 0]
    ELSE
    LET counted == [s.escrows[function_name] EXCEPT !.call_count = @ + 1]
    IN  IF counted.call_count = 1 THEN
            [s |-> [s EXCEPT
                      !.escrows[function_name] =
                          [counted EXCEPT !.last_output = output,
                                          !.released = TRUE],
                      !.current_energy = @ + counted.amount],
             ret |-> counted.amount]
        ELSE IF counted.call_count = 2 /\ PyEq(output, counted.last_output) THEN
            [s |-> [s EXCEPT !.escrows[function_name] = counted,
                             !.current_energy = @ - penalty],
             ret |-> -penalty]
        ELSE [s |-> [s EXCEPT !.escrows[function_name] = counted], ret |-> 0]

RECURSIVE SumAmounts(_, _)
\* The sum of escrows[n].amount over the names n of a set.
SumAmounts(escrows, names) ==
    IF names = {} THEN 0
    ELSE LET n == CHOOSE m \in names : TRUE
         IN  escrows[n].amount + SumAmounts(escrows, names \ {n})

\* EnergySystem.burn_unreleased_escrows: totals the unreleased amounts and
\* changes no field.
burn_unreleased_escrows(s) ==
    [s |-> s,
     ret |-> SumAmounts(s.escrows,
                        {n \in DOMAIN s.escrows : ~s.escrows[n].released})]

\* Variants of remove_capability.  The first pays the gain again for a
\* capability already removed.
remove_capability_again(s, capability) ==
    LET gain == IF capability \in DOMAIN REMOVAL_GAINS
                THEN REMOVAL_GAINS[capability] ELSE 0
    IN  IF gain > 0
        THEN [s |-> [s EXCEPT !.removed_capabilities = @ \cup {capability},
                              !.max_energy = @ + gain,
                              !.current_energy = @ + gain],
              ret |-> TRUE]
        ELSE [s |-> s, ret |-> FALSE]

\* The second raises the ceiling and leaves current_energy where it was.
remove_capability_ceiling(s, capability) ==
    IF capability \in s.removed_capabilities THEN [s |-> s, ret |-> FALSE]
    ELSE
    LET gain == IF capability \in DOMAIN REMOVAL_GAINS
                THEN REMOVAL_GAINS[capability] ELSE 0
    IN  IF gain > 0
        THEN [s |-> [s EXCEPT !.removed_capabilities = @ \cup {capability},
                              !.max_energy = @ + gain],
              ret |-> TRUE]
        ELSE [s |-> s, ret |-> FALSE]

\* EnergySystem.remove_capability
remove_capability(s, capability) ==
    IF capability \in s.removed_capabilities THEN [s |-> s, ret |-> FALSE]
    ELSE
    LET gain == IF capability \in DOMAIN REMOVAL_GAINS
                THEN REMOVAL_GAINS[capability] ELSE 0
    IN  IF gain > 0
        THEN [s |-> [s EXCEPT !.removed_capabilities = @ \cup {capability},
                              !.max_energy = @ + gain,
                              !.current_energy = @ + gain],
              ret |-> TRUE]
        ELSE [s |-> s, ret |-> FALSE]

\* EnergySystem.has_capability
has_capability(s, capability) == capability \notin s.removed_capabilities

(***************************************************************************)
(* The AST of src/src/ast_nodes.py.  A node is a record whose field k is   *)
(* the node's class.  An absent optional child (Return.value,        *)
(* Range.step) is NoNode;                                                  *)
(* an absent else_block is the empty sequence, which exec_stmt treats the  *)
(* same way.                                                               *)
(***************************************************************************)
NoNode == [k |-> "None"]
EnergyDecl(amount) == [k |-> "EnergyDecl", amount |-> amount]
Assignment(name, value, is_stable) ==
    [k |-> "Assignment", name |-> name, value |-> value, is_stable |-> is_stable]
StabilizeStmt(name) == [k |-> "Stabilize", name |-> name]
FunctionDecl(name, params, body, is_pure, is_unstable) ==
    [k |-> "FunctionDecl", name |-> name, params |-> params, body |-> body,
     is_pure |-> is_pure, is_unstable |-> is_unstable]
Return(value) == [k |-> "Return", value |-> value]
FunctionCall(name, args) == [k |-> "FunctionCall", name |-> name, args |-> args]
PrintStmt(value) == [k |-> "Print", value |-> value]
Inspect(value) == [k |-> "Inspect", value |-> value]
QueryEnergy == [k |-> "QueryEnergy"]
Invariant(condition) == [k |-> "Invariant", condition |-> condition]
AssertStmt(condition) == [k |-> "Assert", condition |-> condition]
If(condition, then_block, else_block, is_stable) ==
    [k |-> "If", condition |-> condition, then_block |-> then_block,
     else_block |-> else_block, is_stable |-> is_stable]
While(condition, body) == [k |-> "While", condition |-> condition, body |-> body]
For(var, iterable, body) ==
    [k |-> "For", var |-> var, iterable |-> iterable, body |-> body]
Remove(capability) == [k |-> "Remove", capability |-> capability]
BinaryOp(left, op, right) ==
    [k |-> "BinaryOp", left |-> left, op |-> op, right |-> right]
UnaryOp(op, operand) == [k |-> "UnaryOp", op |-> op, operand |-> operand]
Number(value) == [k |-> "Number", value |-> value]
Identifier(name) == [k |-> "Identifier", name |-> name]
Range(start, end, step) ==
    [k |-> "Range", start |-> start, end |-> end, step |-> step]

(***************************************************************************)
(* The environment of Runtime: globals and the stack of local frames.      *)
(***************************************************************************)
\* An empty dict, and d[name] = value.
EmptyDict == << >>
Bind(d, name, value) ==
    [n \in DOMAIN d \cup {name} |-> IF n = name THEN value ELSE d[n]]

\* raise RuntimeError(msg), or any other Python exception.
Fail(s, msg) == [s EXCEPT !.err = msg]

\* The model's stand-in for a statement that does not finish within MaxFuel.
FuelExhausted == "Unmodelled: fuel exhausted"

\* A line written to standard output.
Emit(s, line, v) == [s EXCEPT !.out = Append(@, [line |-> line, v |-> v])]

\* A lookup that walks down the whole stack of frames before it turns to the
\* globals: the lexical chaining the two-level lookup excludes.
get_var_chained(s, name) ==
    LET holders == {d \in DOMAIN s.locals_stack : name \in DOMAIN s.locals_stack[d]}
        nearest == CHOOSE d \in holders : \A e \in holders : e <= d
    IN  IF holders # {}
        THEN [err |-> "", var |-> s.locals_stack[nearest][name], scope |-> "local"]
        ELSE IF name \in DOMAIN s.globals
        THEN [err |-> "", var |-> s.globals[name], scope |-> "global"]
        ELSE [err |-> "Undefined variable", var |-> None, scope |-> "none"]

\* Runtime.get_var: the binding, and the scope that holds it.
get_var(s, name) ==
    LET depth == Len(s.locals_stack)
    IN  IF depth > 0 /\ name \in DOMAIN s.locals_stack[depth]
        THEN [err |-> "", var |-> s.locals_stack[depth][name], scope |-> "local"]
        ELSE IF name \in DOMAIN s.globals
        THEN [err |-> "", var |-> s.globals[name], scope |-> "global"]
        ELSE [err |-> "Undefined variable", var |-> None, scope |-> "none"]

\* A wrapper object mutated in place (get, stabilize): the binding that
\* get_var found now holds the mutated object.
put_var(s, name, scope, var) ==
    IF scope = "local"
    THEN [s EXCEPT !.locals_stack[Len(s.locals_stack)][name] = var]
    ELSE [s EXCEPT !.globals[name] = var]

\* A set_var that writes the top frame whenever there is one: the variant
\* plain assignments writing the global map excludes.
set_var_scoped(s, name, value, is_local) ==
    IF Len(s.locals_stack) > 0
    THEN [s EXCEPT !.locals_stack[Len(s.locals_stack)] = Bind(@, name, value)]
    ELSE [s EXCEPT !.globals = Bind(@, name, value)]

\* Runtime.set_var
set_var(s, name, value, is_local) ==
    IF is_local /\ Len(s.locals_stack) > 0
    THEN [s EXCEPT !.locals_stack[Len(s.locals_stack)] = Bind(@, name, value)]
    ELSE [s EXCEPT !.globals = Bind(@, name, value)]

\* Runtime.push_scope
push_scope(s) == [s EXCEPT !.locals_stack = Append(@, EmptyDict)]

\* A pop_scope that leaves the frame where it is: the variant the balance of
\* pushes and pops excludes.
pop_scope_kept(s) == s

\* Runtime.pop_scope
pop_scope(s) ==
    IF Len(s.locals_stack) > 0
    THEN [s EXCEPT !.locals_stack = SubSeq(@, 1, Len(@) - 1)]
    ELSE s

RECURSIVE bind_params(_, _, _)
\* for param, arg in zip(func.params, args): set_var(param, StableValue(arg), True)
bind_params(s, params, args) ==
    IF params = << >> \/ args = << >> THEN s
    ELSE bind_params(set_var(s, Head(params), StableValue(Head(args)), TRUE),
                     Tail(params), Tail(args))

(***************************************************************************)
(* The evaluator, src/src/runtime.py.  eval_expr returns the record after  *)
(* the evaluation and the value; exec_stmt returns the record after the    *)
(* statement.  A handler of the source is a chain of operators here: the   *)
(* first evaluates a sub-expression or runs a block and hands the outcome  *)
(* to the next as an argument, in the order of the source's statements.    *)
(***************************************************************************)
RECURSIVE exec_stmt(_, _), exec_block(_, _), exec_while(_, _),
          exec_for_items(_, _, _), eval_expr(_, _), eval_args(_, _)

\* An evaluation that raised: the record carries the exception.
Raised(s) == [s |-> s, v |-> None]

\* The outcome of applying an operator: its value, or the exception raised.
result_of(s, res) ==
    IF res.err # "" THEN Raised(Fail(s, res.err)) ELSE [s |-> s, v |-> res.v]

\* A statement list run in order.  exec_stmt does nothing once
\* self.returning is set, so the loops that test self.returning after each
\* statement and those that do not leave the same state.
exec_block(s, stmts) ==
    IF stmts = << >> \/ s.err # "" THEN s
    ELSE exec_block(exec_stmt(s, Head(stmts)), Tail(stmts))

\* args.append(value) for one evaluated argument.
push_arg(acc, value) == [s |-> value.s, vs |-> Append(acc.vs, value.v)]

\* args = [self.eval_expr(arg) for arg in expr.args], left to right; acc
\* holds the record and the values evaluated so far.
eval_args(acc, args) ==
    IF args = << >> \/ acc.s.err # "" THEN acc
    ELSE eval_args(push_arg(acc, eval_expr(acc.s, Head(args))), Tail(args))

\* An Identifier evaluated without storing the advanced wrapper back: a
\* read that leaves the access count alone, the variant the drift under
\* invariant checks excludes.
eval_Identifier_peek(s, expr) ==
    LET found == get_var(s, expr.name)
        read == value_get(found.var)
    IN  IF found.err # "" THEN Raised(Fail(s, found.err))
        ELSE IF ~IsWrapper(found.var) THEN [s |-> s, v |-> found.var]
        ELSE IF read.err # "" THEN Raised(Fail(s, read.err))
        ELSE [s |-> s, v |-> read.v]

\* eval_expr, Identifier: a wrapper is read with get(), which advances an
\* unstable value; a Function is returned as it is.
eval_Identifier(s, expr) ==
    LET found == get_var(s, expr.name)
        read == value_get(found.var)
    IN  IF found.err # "" THEN Raised(Fail(s, found.err))
        ELSE IF ~IsWrapper(found.var) THEN [s |-> s, v |-> found.var]
        ELSE IF read.err # "" THEN Raised(Fail(s, read.err))
        ELSE [s |-> put_var(s, expr.name, found.scope, read.var), v |-> read.v]

\* eval_expr, BinaryOp, once both operands are evaluated.
binary_apply(op, a, right) ==
    IF right.s.err # "" THEN Raised(right.s)
    ELSE result_of(right.s, apply_binary(op, a, right.v))

\* eval_expr, BinaryOp, once the left operand is evaluated.
binary_right(expr, left) ==
    binary_apply(expr.op, left.v, eval_expr(left.s, expr.right))

\* eval_expr, BinaryOp: both operands are evaluated, left then right.
eval_BinaryOp(s, expr) == binary_right(expr, eval_expr(s, expr.left))

\* eval_expr, UnaryOp, once the operand is evaluated.
unary_apply(op, operand) ==
    IF operand.s.err # "" THEN Raised(operand.s)
    ELSE result_of(operand.s, apply_unary(op, operand.v))

\* eval_expr, UnaryOp
eval_UnaryOp(s, expr) == unary_apply(expr.op, eval_expr(s, expr.operand))

\* eval_expr, FunctionCall, after the body: body is the record the body's
\* statements left.  The scope is popped and, for an unstable callee, the
\* escrow is released with the raw result (None when nothing was returned);
\* the caller gets 0 in place of None.
call_return(func, body) ==
    LET result == body.return_value
        popped == pop_scope([body EXCEPT !.return_value = None,
                                         !.returning = FALSE])
        gained == release_escrow(popped, func.name, result)
        after == IF ~func.is_unstable THEN popped
                 ELSE IF gained.ret < 0
                 THEN Emit(gained.s, "Warning: claimed unstable, acts stable",
                           func.name)
                 ELSE gained.s
    IN  IF body.err # "" THEN Raised(body)
        ELSE [s |-> after, v |-> IF result.t = "none" THEN Num(0) ELSE result]

\* eval_expr, FunctionCall, from the pushed scope on: func is the callee and
\* args its evaluated arguments.
call_function(s, func, args) ==
    call_return(func,
        exec_block([bind_params(push_scope(s), func.params, args)
                        EXCEPT !.returning = FALSE],
                   func.body))

\* A call that pushes the callee's frame before it compares the number of
\* arguments: the variant the early arity test excludes.
call_args_pushed(func, args) ==
    IF args.s.err # "" THEN Raised(args.s)
    ELSE IF Len(args.vs) # Len(func.params)
    THEN Raised(Fail(push_scope(args.s), "wrong number of args"))
    ELSE IF args.s.fuel = 0 THEN Raised(Fail(args.s, FuelExhausted))
    ELSE call_function([args.s EXCEPT !.fuel = @ - 1], func, args.vs)

\* eval_expr, FunctionCall, once the arguments are evaluated.
call_args(func, args) ==
    IF args.s.err # "" THEN Raised(args.s)
    ELSE IF Len(args.vs) # Len(func.params)
    THEN Raised(Fail(args.s, "wrong number of args"))
    ELSE IF args.s.fuel = 0 THEN Raised(Fail(args.s, FuelExhausted))
    ELSE call_function([args.s EXCEPT !.fuel = @ - 1], func, args.vs)

\* eval_expr, FunctionCall, once the callee is looked up.
call_found(s, expr, found) ==
    IF found.err # "" THEN Raised(Fail(s, found.err))
    ELSE IF found.var.t # "Function" THEN Raised(Fail(s, "is not a function"))
    ELSE call_args(found.var, eval_args([s |-> s, vs |-> << >>], expr.args))

\* eval_expr, FunctionCall
eval_FunctionCall(s, expr) == call_found(s, expr, get_var(s, expr.name))

\* Runtime.eval_expr
eval_expr(s, expr) ==
    IF s.err # "" THEN Raised(s)
    ELSE IF expr.k = "Number" THEN [s |-> s, v |-> Num(expr.value)]
    ELSE IF expr.k = "Identifier" THEN eval_Identifier(s, expr)
    ELSE IF expr.k = "BinaryOp" THEN eval_BinaryOp(s, expr)
    ELSE IF expr.k = "UnaryOp" THEN eval_UnaryOp(s, expr)
    ELSE IF expr.k = "FunctionCall" THEN eval_FunctionCall(s, expr)
    ELSE Raised(Fail(s, "Cannot evaluate"))

\* An assignment that binds the Stable value although the spend failed: the
\* variant a fatal spend failure excludes.
assign_value_unpaid(stmt, value) ==
    LET paid == spend(value.s, "stable_var")
    IN  IF value.s.err # "" THEN value.s
        ELSE IF ~stmt.is_stable
        THEN set_var(value.s, stmt.name, UnstableValue(value.v), FALSE)
        ELSE set_var(paid.s, stmt.name, StableValue(value.v), FALSE)

\* An assignment that pays for stable and binds an Unstable value all the
\* same: the variant the Stable wrapping excludes.
assign_value_unstable(stmt, value) ==
    LET paid == spend(value.s, "stable_var")
    IN  IF value.s.err # "" THEN value.s
        ELSE IF ~stmt.is_stable
        THEN set_var(value.s, stmt.name, UnstableValue(value.v), FALSE)
        ELSE IF ~paid.ret
        THEN Fail(paid.s, "Insufficient energy for stable assignment")
        ELSE set_var(paid.s, stmt.name, UnstableValue(value.v), FALSE)

\* exec_stmt, Assignment, once the right-hand side is evaluated: a stable
\* assignment spends stable_var now.
assign_value(stmt, value) ==
    LET paid == spend(value.s, "stable_var")
    IN  IF value.s.err # "" THEN value.s
        ELSE IF ~stmt.is_stable
        THEN set_var(value.s, stmt.name, UnstableValue(value.v), FALSE)
        ELSE IF ~paid.ret
        THEN Fail(paid.s, "Insufficient energy for stable assignment")
        ELSE set_var(paid.s, stmt.name, StableValue(value.v), FALSE)

\* exec_stmt, Assignment: the right-hand side is evaluated first.
exec_Assignment(s, stmt) == assign_value(stmt, eval_expr(s, stmt.value))

\* exec_stmt, Stabilize: the name is looked up before stabilize is spent;
\* a Function has no stabilize method and is left alone.
exec_Stabilize(s, stmt) ==
    LET found == get_var(s, stmt.name)
        paid == spend(s, "stabilize")
        frozen == value_stabilize(found.var)
    IN  IF found.err # "" THEN Fail(s, found.err)
        ELSE IF ~paid.ret THEN Fail(paid.s, "Insufficient energy to stabilize")
        ELSE IF ~IsWrapper(found.var) THEN paid.s
        ELSE IF frozen.err # "" THEN Fail(paid.s, frozen.err)
        ELSE put_var(paid.s, stmt.name, found.scope, frozen.var)

\* A declaration that reserves an escrow whatever the modifiers: the
\* variant an escrow for unstable functions only excludes.
exec_FunctionDecl_escrowed(s, stmt) ==
    LET cost_key == IF stmt.is_unstable THEN "declare_unstable_fn"
                    ELSE IF stmt.is_pure THEN "declare_pure_fn"
                    ELSE "declare_fn"
        paid == spend(s, cost_key)
        func == Function(stmt.name, stmt.params, stmt.body, stmt.is_pure,
                         stmt.is_unstable)
        declared == set_var(paid.s, stmt.name, func, FALSE)
    IN  IF ~paid.ret THEN Fail(paid.s, "Insufficient energy to declare function")
        ELSE create_escrow(declared, stmt.name, TRUE)

\* exec_stmt, FunctionDecl
exec_FunctionDecl(s, stmt) ==
    LET cost_key == IF stmt.is_unstable THEN "declare_unstable_fn"
                    ELSE IF stmt.is_pure THEN "declare_pure_fn"
                    ELSE "declare_fn"
        paid == spend(s, cost_key)
        func == Function(stmt.name, stmt.params, stmt.body, stmt.is_pure,
                         stmt.is_unstable)
        declared == set_var(paid.s, stmt.name, func, FALSE)
    IN  IF ~paid.ret THEN Fail(paid.s, "Insufficient energy to declare function")
        ELSE IF stmt.is_unstable THEN create_escrow(declared, stmt.name, TRUE)
        ELSE declared

\* exec_stmt, Return, once the value is evaluated.
return_value_of(value) ==
    IF value.s.err # "" THEN value.s
    ELSE [value.s EXCEPT !.return_value = value.v, !.returning = TRUE]

\* exec_stmt, Return
exec_Return(s, stmt) ==
    IF stmt.value.k = "None"
    THEN [s EXCEPT !.return_value = None, !.returning = TRUE]
    ELSE return_value_of(eval_expr(s, stmt.value))

\* exec_stmt, Print, once the value is evaluated.
print_value(value) ==
    IF value.s.err # "" THEN value.s ELSE Emit(value.s, "print", value.v)

\* exec_stmt, Print
exec_Print(s, stmt) == print_value(eval_expr(s, stmt.value))

\* exec_stmt, Inspect, once the expression is evaluated.  The evaluated
\* value is a raw value or a Function, neither of which has an inspect
\* method, so the raw value is printed.
inspect_value(value) ==
    IF value.s.err # "" THEN value.s ELSE Emit(value.s, "[INSPECT]", value.v)

\* exec_stmt, Inspect: inspect is spent, then the expression is evaluated.
exec_Inspect(s, stmt) ==
    LET paid == spend(s, "inspect")
    IN  IF ~paid.ret THEN Fail(paid.s, "Insufficient energy to inspect")
        ELSE inspect_value(eval_expr(paid.s, stmt.value))

\* exec_stmt, QueryEnergy
exec_QueryEnergy(s) ==
    Emit(s, "Energy", <<s.current_energy, s.max_energy>>)

\* An invariant statement that lets a false condition pass: the variant a
\* failure at declaration excludes.
invariant_unchecked(checked) == checked.s

\* exec_stmt, Invariant, once the condition is evaluated.
invariant_checked(checked) ==
    IF checked.s.err # "" THEN checked.s
    ELSE IF ~Truthy(checked.v)
    THEN Fail(checked.s, "Invariant violated on declaration")
    ELSE checked.s

\* exec_stmt, Invariant: the capability is tested, invariant is spent, the
\* condition is registered and then evaluated.
exec_Invariant(s, stmt) ==
    LET paid == spend(s, "invariant")
    IN  IF ~has_capability(s, "invariants")
        THEN Fail(s, "Invariants capability has been removed")
        ELSE IF ~paid.ret THEN Fail(paid.s, "Insufficient energy for invariant")
        ELSE invariant_checked(
                eval_expr([paid.s EXCEPT !.invariants = Append(@, stmt.condition)],
                          stmt.condition))

\* exec_stmt, Assert, once the condition is evaluated.
assert_checked(checked) ==
    IF checked.s.err # "" THEN checked.s
    ELSE IF ~Truthy(checked.v) THEN Fail(checked.s, "Assertion failed")
    ELSE checked.s

\* exec_stmt, Assert
exec_Assert(s, stmt) ==
    LET paid == spend(s, "assert")
    IN  IF ~paid.ret THEN Fail(paid.s, "Insufficient energy for assert")
        ELSE assert_checked(eval_expr(paid.s, stmt.condition))

\* exec_stmt, If, once the condition is evaluated.
if_branch(stmt, condition) ==
    IF condition.s.err # "" THEN condition.s
    ELSE exec_block(condition.s,
                    IF Truthy(condition.v) THEN stmt.then_block
                    ELSE stmt.else_block)

\* A stable if that evaluates its condition first and spends afterwards: the
\* variant the order of the charge excludes.
exec_If_late(s, stmt) ==
    LET condition == eval_expr(s, stmt.condition)
        paid == IF stmt.is_stable THEN spend(condition.s, "stable_if")
                ELSE [s |-> condition.s, ret |-> TRUE]
    IN  IF condition.s.err # "" THEN condition.s
        ELSE IF ~paid.ret
        THEN Fail(paid.s, "Insufficient energy for stable if")
        ELSE if_branch(stmt, [s |-> paid.s, v |-> condition.v])

\* exec_stmt, If: a stable if spends stable_if before the condition is
\* evaluated.
exec_If(s, stmt) ==
    LET paid == IF stmt.is_stable THEN spend(s, "stable_if")
                ELSE [s |-> s, ret |-> TRUE]
    IN  IF ~paid.ret THEN Fail(paid.s, "Insufficient energy for stable if")
        ELSE if_branch(stmt, eval_expr(paid.s, stmt.condition))

\* A while that tests only for an error after a pass of the body and goes
\* back to its condition although the body returned: the variant the stop
\* on return excludes.
while_again_blind(stmt, body) ==
    IF body.err # "" THEN body ELSE exec_while(body, stmt)

\* exec_stmt, While, after a pass of the body.
while_again(stmt, body) ==
    IF body.err # "" \/ body.returning THEN body ELSE exec_while(body, stmt)

\* exec_stmt, While, once the condition is evaluated.
while_test(stmt, condition) ==
    IF condition.s.err # "" THEN condition.s
    ELSE IF ~Truthy(condition.v) THEN condition.s
    ELSE IF condition.s.fuel = 0 THEN Fail(condition.s, FuelExhausted)
    ELSE while_again(stmt,
            exec_block([condition.s EXCEPT !.fuel = @ - 1], stmt.body))

\* exec_stmt, While: the condition is evaluated again after every pass of
\* the body, unless the body returned.
exec_while(s, stmt) == while_test(stmt, eval_expr(s, stmt.condition))

\* exec_stmt, For, after a pass of the body.
for_again(stmt, items, body) ==
    IF body.err # "" \/ body.returning THEN body
    ELSE exec_for_items(body, stmt, Tail(items))

\* exec_stmt, For, the loop over the items.
exec_for_items(s, stmt, items) ==
    IF items = << >> \/ s.err # "" THEN s
    ELSE for_again(stmt, items,
            exec_block(set_var(s, stmt.var, StableValue(Head(items)), TRUE),
                       stmt.body))

\* exec_stmt, For, once the iterable is evaluated: it must be a Python
\* range or list.  eval_expr has no case for a Range node and produces no
\* value of either type.
for_iterable(stmt, iterable) ==
    IF iterable.s.err # "" THEN iterable.s
    ELSE IF iterable.v.t \in {"range", "list"}
    THEN exec_for_items(iterable.s, stmt, iterable.v.items)
    ELSE Fail(iterable.s, "Cannot iterate")

\* exec_stmt, For
exec_For(s, stmt) == for_iterable(stmt, eval_expr(s, stmt.iterable))

\* exec_stmt, Remove
exec_Remove(s, stmt) ==
    LET removed == remove_capability(s, stmt.capability)
    IN  IF ~removed.ret THEN Fail(removed.s, "Cannot remove capability")
        ELSE Emit(removed.s, "Removed capability", stmt.capability)

\* An exec_stmt that does not look at self.returning: the variant the skip
\* after a return excludes.
exec_stmt_deaf(s, stmt) ==
    IF s.err # "" THEN s
    ELSE IF stmt.k = "EnergyDecl" THEN set_initial_energy(s, stmt.amount)
    ELSE IF stmt.k = "Assignment" THEN exec_Assignment(s, stmt)
    ELSE IF stmt.k = "Stabilize" THEN exec_Stabilize(s, stmt)
    ELSE IF stmt.k = "FunctionDecl" THEN exec_FunctionDecl(s, stmt)
    ELSE IF stmt.k = "Return" THEN exec_Return(s, stmt)
    ELSE IF stmt.k = "Print" THEN exec_Print(s, stmt)
    ELSE IF stmt.k = "Inspect" THEN exec_Inspect(s, stmt)
    ELSE IF stmt.k = "QueryEnergy" THEN exec_QueryEnergy(s)
    ELSE IF stmt.k = "Invariant" THEN exec_Invariant(s, stmt)
    ELSE IF stmt.k = "Assert" THEN exec_Assert(s, stmt)
    ELSE IF stmt.k = "If" THEN exec_If(s, stmt)
    ELSE IF stmt.k = "While" THEN exec_while(s, stmt)
    ELSE IF stmt.k = "For" THEN exec_For(s, stmt)
    ELSE IF stmt.k = "Remove" THEN exec_Remove(s, stmt)
    ELSE IF stmt.k = "FunctionCall" THEN eval_expr(s, stmt).s
    ELSE s

\* Runtime.exec_stmt
exec_stmt(s, stmt) ==
    IF s.err # "" \/ s.returning THEN s
    ELSE IF stmt.k = "EnergyDecl" THEN set_initial_energy(s, stmt.amount)
    ELSE IF stmt.k = "Assignment" THEN exec_Assignment(s, stmt)
    ELSE IF stmt.k = "Stabilize" THEN exec_Stabilize(s, stmt)
    ELSE IF stmt.k = "FunctionDecl" THEN exec_FunctionDecl(s, stmt)
    ELSE IF stmt.k = "Return" THEN exec_Return(s, stmt)
    ELSE IF stmt.k = "Print" THEN exec_Print(s, stmt)
    ELSE IF stmt.k = "Inspect" THEN exec_Inspect(s, stmt)
    ELSE IF stmt.k = "QueryEnergy" THEN exec_QueryEnergy(s)
    ELSE IF stmt.k = "Invariant" THEN exec_Invariant(s, stmt)
    ELSE IF stmt.k = "Assert" THEN exec_Assert(s, stmt)
    ELSE IF stmt.k = "If" THEN exec_If(s, stmt)
    ELSE IF stmt.k = "While" THEN exec_while(s, stmt)
    ELSE IF stmt.k = "For" THEN exec_For(s, stmt)
    ELSE IF stmt.k = "Remove" THEN exec_Remove(s, stmt)
    ELSE IF stmt.k = "FunctionCall" THEN eval_expr(s, stmt).s
    ELSE s

RECURSIVE check_each(_, _)
\* Runtime.check_invariants, once the i-th invariant is evaluated.
check_result(i, result) ==
    IF result.s.err # "" THEN result.s
    ELSE IF ~Truthy(result.v) THEN Fail(result.s, "Invariant violated")
    ELSE check_each(result.s, i + 1)

\* The loop of Runtime.check_invariants from the i-th registered invariant
\* on.  The loop walks the live list: an invariant registered while an
\* earlier one is evaluated is checked in the same pass.
check_each(s, i) ==
    IF i > Len(s.invariants) \/ s.err # "" THEN s
    ELSE check_result(i, eval_expr(s, s.invariants[i]))

\* Variants of check_invariants: one never evaluates the registered
\* invariants, the other evaluates them whether or not the capability is
\* held.
check_invariants_never(s) == s

check_invariants_always(s) == check_each(s, 1)

\* Runtime.check_invariants
check_invariants(s) ==
    IF ~has_capability(s, "invariants") THEN s
    ELSE check_each(s, 1)

\* The loop body of Runtime.run after exec_stmt: check_invariants, unless
\* exec_stmt raised.
after_exec(executed) ==
    IF executed.err # "" THEN executed ELSE check_invariants(executed)

\* One pass of the loop of Runtime.run: exec_stmt, then check_invariants.
run_stmt(s, stmt) == after_exec(exec_stmt(s, stmt))

(***************************************************************************)
(* The programs of the model: the top-level statements a run draws from.   *)
(***************************************************************************)
\* declare unstable fn evolve(n) { return n + 1 }
DeclEvolve ==
    FunctionDecl("evolve", <<"n">>,
                 <<Return(BinaryOp(Identifier("n"), "+", Number(1)))>>,
                 FALSE, TRUE)
\* declare unstable fn drift() { return x }
DeclDrift ==
    FunctionDecl("drift", << >>, <<Return(Identifier("x"))>>, FALSE, TRUE)

\* energy[100], energy[5]
EnergyDecls == <<EnergyDecl(100), EnergyDecl(5)>>
\* x <- 5, x <- evolve(5)
PlainAssignments ==
    <<Assignment("x", Number(5), FALSE),
      Assignment("x", FunctionCall("evolve", <<Number(5)>>), FALSE)>>
\* stable y <- 10, stable y <- x, stable y <- evolve(5)
StableAssignments ==
    <<Assignment("y", Number(10), TRUE),
      Assignment("y", Identifier("x"), TRUE),
      Assignment("y", FunctionCall("evolve", <<Number(5)>>), TRUE)>>
\* stabilize x
Stabilizes == <<StabilizeStmt("x")>>
FunctionDecls == <<DeclEvolve, DeclDrift>>
\* evolve(5), evolve(7), drift()
Calls ==
    <<FunctionCall("evolve", <<Number(5)>>),
      FunctionCall("evolve", <<Number(7)>>),
      FunctionCall("drift", << >>)>>
\* print y, print x
Prints == <<PrintStmt(Identifier("y")), PrintStmt(Identifier("x"))>>
\* remove[invariants], remove[stable_control], remove[inspection],
\* remove[teleport]
Removes ==
    <<Remove("invariants"), Remove("stable_control"), Remove("inspection"),
      Remove("teleport")>>

(***************************************************************************)
(* The state of a run: the fields of Runtime and of its EnergySystem, and  *)
(* the position of Runtime.run.                                            *)
(***************************************************************************)
VARIABLES
    current_energy,        \* EnergySystem.current_energy
    max_energy,            \* EnergySystem.max_energy
    removed_capabilities,  \* EnergySystem.removed_capabilities
    escrows,               \* EnergySystem.escrows
    globals,               \* Runtime.globals
    locals_stack,          \* Runtime.locals_stack
    invariants,            \* Runtime.invariants
    return_value,          \* Runtime.return_value
    returning,             \* Runtime.returning
    status,                \* "running", "error" (an exception left run) or "done"
    error,                 \* the exception that ended the run, "" if none
    stmt,                  \* the top-level statement run last
    out,                   \* the lines that statement wrote
    burned,                \* what burn_unreleased_escrows returned
    steps                  \* top-level statements run so far

vars ==
    <<current_energy, max_energy, removed_capabilities, escrows, globals,
      locals_stack, invariants, return_value, returning, status, error, stmt,
      out, burned, steps>>

\* The interpreter's fields as the record the operators work on.
RT ==
    [current_energy |-> current_energy, max_energy |-> max_energy,
     removed_capabilities |-> removed_capabilities, escrows |-> escrows,
     globals |-> globals, locals_stack |-> locals_stack,
     invariants |-> invariants, return_value |-> return_value,
     returning |-> returning, err |-> "", out |-> << >>, fuel |-> MaxFuel]

\* Runtime.__init__ and EnergySystem.__init__
Init ==
    /\ current_energy = 0
    /\ max_energy = 0
    /\ removed_capabilities = {}
    /\ escrows = EmptyDict
    /\ globals = EmptyDict
    /\ locals_stack = << >>
    /\ invariants = << >>
    /\ return_value = None
    /\ returning = FALSE
    /\ status = "running"
    /\ error = ""
    /\ stmt = NoNode
    /\ out = << >>
    /\ burned = 0
    /\ steps = 0

\* An outcome the model does not represent: a statement that does not end
\* within MaxFuel, or a quotient that is not an integer.
Unmodelled(err) == err \in {FuelExhausted, "Unmodelled: non-integral quotient"}

\* The variables after the interpreter's fields became those of r.
Store(r) ==
    /\ current_energy' = r.current_energy
    /\ max_energy' = r.max_energy
    /\ removed_capabilities' = r.removed_capabilities
    /\ escrows' = r.escrows
    /\ globals' = r.globals
    /\ locals_stack' = r.locals_stack
    /\ invariants' = r.invariants
    /\ return_value' = r.return_value
    /\ returning' = r.returning
    /\ out' = r.out
    /\ error' = r.err

\* The variables after a pass of the loop of Runtime.run left the record r.
Ran(r) ==
    /\ ~Unmodelled(r.err)
    /\ Store(r)
    /\ status' = IF r.err # "" THEN "error" ELSE "running"

\* The variables after burn_unreleased_escrows returned r: a total above 0
\* is reported.
Burned(r) ==
    /\ Store(IF r.ret > 0 THEN Emit(r.s, "Warning: energy burned", r.ret)
             ELSE r.s)
    /\ burned' = r.ret

\* One pass of the loop of Runtime.run over the statement next.  An
\* exception leaves run at once: the state keeps what was done so far and
\* burn_unreleased_escrows is not reached.
Step(next) ==
    /\ status = "running"
    /\ steps < MaxStmts
    /\ Ran(run_stmt(RT, next))
    /\ steps' = steps + 1
    /\ UNCHANGED burned

\* The next top-level statement is an energy declaration.
ExecEnergyDecl ==
    \E i \in DOMAIN EnergyDecls :
        /\ stmt' = EnergyDecls[i]
        /\ Step(EnergyDecls[i])

\* The next top-level statement is a plain assignment.
ExecAssignment ==
    \E i \in DOMAIN PlainAssignments :
        /\ stmt' = PlainAssignments[i]
        /\ Step(PlainAssignments[i])

\* The next top-level statement is a stable assignment.
ExecStableAssignment ==
    \E i \in DOMAIN StableAssignments :
        /\ stmt' = StableAssignments[i]
        /\ Step(StableAssignments[i])

\* The next top-level statement is a stabilize.
ExecStabilize ==
    \E i \in DOMAIN Stabilizes :
        /\ stmt' = Stabilizes[i]
        /\ Step(Stabilizes[i])

\* The next top-level statement is a function declaration.
ExecFunctionDecl ==
    \E i \in DOMAIN FunctionDecls :
        /\ stmt' = FunctionDecls[i]
        /\ Step(FunctionDecls[i])

\* The next top-level statement is a function call.
ExecFunctionCall ==
    \E i \in DOMAIN Calls :
        /\ stmt' = Calls[i]
        /\ Step(Calls[i])

\* The next top-level statement is a print.
ExecPrint ==
    \E i \in DOMAIN Prints :
        /\ stmt' = Prints[i]
        /\ Step(Prints[i])

\* The next top-level statement is a remove.
ExecRemove ==
    \E i \in DOMAIN Removes :
        /\ stmt' = Removes[i]
        /\ Step(Removes[i])

\* The end of Runtime.run: the statements are exhausted and the unreleased
\* escrows are burned.
Finish ==
    /\ status = "running"
    /\ Burned(burn_unreleased_escrows(RT))
    /\ status' = "done"
    /\ UNCHANGED <<stmt, steps>>

Next ==
    \/ ExecEnergyDecl
    \/ ExecAssignment
    \/ ExecStableAssignment
    \/ ExecStabilize
    \/ ExecFunctionDecl
    \/ ExecFunctionCall
    \/ ExecPrint
    \/ ExecRemove
    \/ Finish

Spec == Init /\ [][Next]_vars

(***************************************************************************)
(* Notions shared by the properties.                                       *)
(***************************************************************************)
\* A step that ran one top-level statement (stmt' is that statement).
StmtStep == steps' = steps + 1

\* The step that ended the program.
FinishStep == status = "running" /\ status' = "done"

\* The function a top-level statement of the model calls, "" if none.
Callee(st) ==
    IF st.k = "FunctionCall" THEN st.name
    ELSE IF st.k = "Assignment" /\ st.value.k = "FunctionCall" THEN st.value.name
    ELSE ""

\* name is bound, globally, to a function declared unstable.
BoundUnstable(name) ==
    /\ name \in DOMAIN globals
    /\ globals[name].t = "Function"
    /\ globals[name].is_unstable

\* A line was written by the statement run last.
Wrote(lines, line) == \E i \in DOMAIN lines : lines[i].line = line

\* Outputs a call may hand to release_escrow, None among them.
Outputs == <<None, Num(0), Num(1), Num(6), Num(8), Bool(TRUE)>>

\* Operation names handed to spend: the configured ones and one that is not.
Operations == DOMAIN COSTS \cup {"teleport"}

\* Capability names: the configured ones and one that is not.
Capabilities == DOMAIN REMOVAL_GAINS \cup {"teleport"}

(***************************************************************************)
(* C1.  spend(op), in every reachable ledger state and for every operation *)
(* name: when current_energy covers the cost (0 for an unconfigured name)  *)
(* it deducts exactly the cost and returns success, otherwise it returns   *)
(* failure and changes nothing; a non-negative current_energy therefore    *)
(* stays non-negative.                                                     *)
(***************************************************************************)
C1_SpendContract ==
    \A op \in Operations :
        LET cost == IF op \in DOMAIN COSTS THEN COSTS[op] ELSE 0
            r == spend(RT, op)
        IN  /\ current_energy >= cost =>
                /\ r.ret
                /\ r.s = [RT EXCEPT !.current_energy = current_energy - cost]
            /\ current_energy < cost => ~r.ret /\ r.s = RT
            /\ current_energy >= 0 => r.s.current_energy >= 0

\* A stable assignment whose spend was refused with energy, an escrow and a
\* removed capability in place.
C1_Witness ==
    /\ status = "error"
    /\ error = "Insufficient energy for stable assignment"
    /\ current_energy > 0
    /\ escrows # EmptyDict
    /\ removed_capabilities # {}

(***************************************************************************)
(* C2.  The first completed call of a function declared unstable pays out  *)
(* whatever it returns: 4 is credited, released is set and the output is   *)
(* recorded.  Declaring evolve (cost 1) and calling it once takes          *)
(* energy[100] to 103.                                                     *)
(***************************************************************************)
\* release_escrow on an escrow not yet called, for every output.
C2_FirstReleasePays ==
    \A n \in DOMAIN escrows : \A i \in DOMAIN Outputs :
        escrows[n].call_count = 0 =>
            LET r == release_escrow(RT, n, Outputs[i])
            IN  /\ r.ret = 4
                /\ r.s.current_energy = current_energy + 4
                /\ r.s.escrows[n].released
                /\ r.s.escrows[n].last_output = Outputs[i]
                /\ r.s.escrows[n].call_count = 1

\* energy[100], declare unstable fn evolve, one call: 103.
C2_Scenario ==
    (/\ steps = 3
     /\ status = "running"
     /\ max_energy = 100
     /\ stmt.k \in {"FunctionCall", "Assignment"}
     /\ ~stmt.k = "Assignment" \/ ~stmt.is_stable
     /\ "evolve" \in DOMAIN escrows
     /\ escrows["evolve"].call_count = 1)
    => current_energy = 103

\* A statement that calls an unstable function whose escrow was not yet
\* called, and does nothing else with energy, completes with the payout.
C2_FirstCallStep ==
    \A n \in {"evolve", "drift"} :
        (/\ StmtStep
         /\ Callee(stmt') = n
         /\ ~(stmt'.k = "Assignment" /\ stmt'.is_stable)
         /\ BoundUnstable(n)
         /\ escrows[n].call_count = 0
         /\ status' = "running")
        => /\ current_energy' = current_energy + 4
           /\ escrows'[n].released
           /\ escrows'[n].call_count = 1

\* Declaring an unstable function costs 1.
C2_DeclareStep ==
    (StmtStep /\ stmt'.k = "FunctionDecl" /\ stmt'.is_unstable
        /\ status' = "running")
    => current_energy' = current_energy - 1

C2_FirstCallPaysOut ==
    /\ [](C2_FirstReleasePays /\ C2_Scenario)
    /\ [][C2_FirstCallStep /\ C2_DeclareStep]_vars

\* energy[100], declare unstable fn evolve, x <- evolve(5).
C2_Witness ==
    /\ steps = 3
    /\ stmt = Assignment("x", FunctionCall("evolve", <<Number(5)>>), FALSE)
    /\ max_energy = 100
    /\ current_energy = 103
    /\ escrows["evolve"].released
    /\ escrows["evolve"].last_output = Num(6)

(***************************************************************************)
(* C3.  The second call of an unstable function since its declaration: an  *)
(* output equal to the one recorded on the first call costs exactly 6,     *)
(* deducted without an availability check, and -6 is reported; a           *)
(* different output changes nothing and 0 is reported.                     *)
(***************************************************************************)
\* release_escrow on an escrow called once, for every output.
C3_SecondRelease ==
    \A n \in DOMAIN escrows : \A i \in DOMAIN Outputs :
        escrows[n].call_count = 1 =>
            LET r == release_escrow(RT, n, Outputs[i])
            IN  IF PyEq(Outputs[i], escrows[n].last_output)
                THEN /\ r.ret = -6
                     /\ r.s.current_energy = current_energy - 6
                ELSE /\ r.ret = 0
                     /\ r.s.current_energy = current_energy

\* What a call statement of the model returns: evolve(k) returns k + 1 and
\* drift() the value the next read of x yields.
ResultOf(st) ==
    LET call == IF st.k = "Assignment" THEN st.value ELSE st
    IN  IF call.name = "evolve" THEN Num(call.args[1].value + 1)
        ELSE value_get(globals["x"]).v

\* A statement that makes the second call of an unstable function and does
\* nothing else with energy.
C3_SecondCallStep ==
    \A n \in {"evolve", "drift"} :
        (/\ StmtStep
         /\ Callee(stmt') = n
         /\ ~(stmt'.k = "Assignment" /\ stmt'.is_stable)
         /\ BoundUnstable(n)
         /\ escrows[n].call_count = 1
         /\ status' = "running")
        => IF PyEq(ResultOf(stmt'), escrows[n].last_output)
           THEN /\ current_energy' = current_energy - 6
                /\ Wrote(out', "Warning: claimed unstable, acts stable")
           ELSE /\ current_energy' = current_energy
                /\ ~Wrote(out', "Warning: claimed unstable, acts stable")

C4_LaterRelease ==
    \A n \in DOMAIN escrows : \A i \in DOMAIN Outputs :
        escrows[n].call_count >= 2 =>
            LET r == release_escrow(RT, n, Outputs[i])
            IN  /\ r.ret = 0
                /\ r.s.current_energy = current_energy
                /\ r.s.max_energy = max_energy

\* A statement that makes the third or a later call and does nothing else
\* with energy.
C4_LaterCallStep ==
    \A n \in {"evolve", "drift"} :
        (/\ StmtStep
         /\ Callee(stmt') = n
         /\ ~(stmt'.k = "Assignment" /\ stmt'.is_stable)
         /\ BoundUnstable(n)
         /\ escrows[n].call_count >= 2
         /\ status' = "running")
        => /\ current_energy' = current_energy
           /\ escrows'[n].call_count = escrows[n].call_count + 1
           /\ ~Wrote(out', "Warning: claimed unstable, acts stable")

C4_ThirdCallOnward == []C4_LaterRelease /\ [][C4_LaterCallStep]_vars

\* A fourth call that repeated the recorded output.
C4_Witness ==
    /\ stmt = FunctionCall("evolve", <<Number(5)>>)
    /\ status = "running"
    /\ escrows["evolve"].call_count = 4
    /\ escrows["evolve"].last_output = Num(6)

(***************************************************************************)
(* C5.  At program termination burn_unreleased_escrows deducts from        *)
(* current_energy the amount of every escrow not released and returns the  *)
(* total: k unstable functions declared and never called cost 4 * k.       *)
(***************************************************************************)
Unreleased == {n \in DOMAIN escrows : ~escrows[n].released}

C5_BurnDeducts ==
    [][FinishStep =>
        /\ burned' = 4 * Cardinality(Unreleased)
        /\ current_energy' = current_energy - 4 * Cardinality(Unreleased)]_vars

(***************************************************************************)
(* C6.  remove_capability fails, changing nothing, for a capability that   *)
(* is already removed or has no configured gain, and the remove statement  *)
(* is then fatal; a removal that succeeds is of a capability not removed   *)
(* before.                                                                 *)
(***************************************************************************)
\* remove_capability in every reachable ledger state, for every name.
C6_RemoveFails ==
    \A cap \in Capabilities :
        (cap \in removed_capabilities \/ cap \notin DOMAIN REMOVAL_GAINS) =>
            LET r == remove_capability(RT, cap)
            IN  ~r.ret /\ r.s = RT

C6_RemoveStep ==
    (StmtStep /\ stmt'.k = "Remove") =>
        IF stmt'.capability \in removed_capabilities
            \/ stmt'.capability \notin DOMAIN REMOVAL_GAINS
        THEN /\ status' = "error"
             /\ error' = "Cannot remove capability"
             /\ current_energy' = current_energy
             /\ max_energy' = max_energy
             /\ removed_capabilities' = removed_capabilities
        ELSE /\ status' = "running"
             /\ stmt'.capability \in removed_capabilities'

C6_RemoveOnce == []C6_RemoveFails /\ [][C6_RemoveStep]_vars

\* A second remove of the same capability ended the run.
C6_Witness ==
    /\ status = "error"
    /\ error = "Cannot remove capability"
    /\ stmt.k = "Remove"
    /\ stmt.capability \in removed_capabilities

(***************************************************************************)
(* C7.  A successful remove_capability raises max_energy and               *)
(* current_energy by the same configured amount (invariants 20,            *)
(* stable_control 15, inspection 10) and has_capability is false after     *)
(* it: energy[100], remove[invariants] gives 120/120.                      *)
(***************************************************************************)
ConfiguredGain(cap) ==
    IF cap = "invariants" THEN 20
    ELSE IF cap = "stable_control" THEN 15
    ELSE IF cap = "inspection" THEN 10
    ELSE 0

C7_RemoveSucceeds ==
    \A cap \in Capabilities :
        (cap \notin removed_capabilities /\ ConfiguredGain(cap) > 0) =>
            LET r == remove_capability(RT, cap)
            IN  /\ r.ret
                /\ r.s.max_energy = max_energy + ConfiguredGain(cap)
                /\ r.s.current_energy = current_energy + ConfiguredGain(cap)
                /\ ~has_capability(r.s, cap)

C7_RemoveStep ==
    (StmtStep /\ stmt'.k = "Remove" /\ status' = "running") =>
        /\ max_energy' = max_energy + ConfiguredGain(stmt'.capability)
        /\ current_energy' = current_energy + ConfiguredGain(stmt'.capability)
        /\ max_energy' > max_energy
        /\ stmt'.capability \in removed_capabilities'

\* energy[100], remove[invariants].
C7_Scenario ==
    (steps = 2 /\ stmt = Remove("invariants") /\ status = "running"
        /\ max_energy = 120)
    => current_energy = 120 /\ ~has_capability(RT, "invariants")

C7_RemoveGain ==
    /\ [](C7_RemoveSucceeds /\ C7_Scenario)
    /\ [][C7_RemoveStep]_vars

C7_Witness ==
    /\ steps = 2
    /\ stmt = Remove("invariants")
    /\ current_energy = 120
    /\ max_energy = 120
    /\ "invariants" \in removed_capabilities

(***************************************************************************)
(* C8.  A removed capability stays removed in every later state of the     *)
(* run, whatever statements follow.                                        *)
(***************************************************************************)
C8_RemovalPermanent ==
    [][\A cap \in Capabilities :
        ~has_capability(RT, cap) => cap \in removed_capabilities']_vars

\* A second energy declaration after a removal and a function declaration.
C8_Witness ==
    /\ stmt.k = "EnergyDecl"
    /\ steps >= 4
    /\ removed_capabilities # {}
    /\ escrows # EmptyDict
    /\ current_energy = max_energy

(***************************************************************************)
(* C9.  A successful stable assignment deducts exactly 5 and binds the     *)
(* name to a Stable value; every later read yields that value, however     *)
(* often it is read, until the name is assigned again: energy[100],        *)
(* stable y <- 10 gives 95 and y reads 10.                                 *)
(***************************************************************************)
BoundStable(name) ==
    name \in DOMAIN globals /\ globals[name].t = "StableValue"

\* Reading a Stable binding, once and again, yields its value and leaves
\* the program state as it was.
C9_StableRead ==
    \A n \in DOMAIN globals :
        globals[n].t = "StableValue" =>
            LET once == eval_expr(RT, Identifier(n))
            IN  /\ once.v = globals[n].value
                /\ once.s = RT
                /\ eval_expr(once.s, Identifier(n)).v = once.v

\* The energy left once the right-hand side is evaluated: a right-hand side
\* without a call leaves it as it was.
AfterRhs(st) ==
    IF Callee(st) = "" THEN current_energy
    ELSE eval_expr(RT, st.value).s.current_energy

C9_AssignStep ==
    (/\ StmtStep
     /\ stmt'.k = "Assignment"
     /\ stmt'.is_stable
     /\ status' = "running")
    => /\ current_energy' = AfterRhs(stmt') - 5
       /\ stmt'.name \in DOMAIN globals'
       /\ globals'[stmt'.name] = StableValue(eval_expr(RT, stmt'.value).v)

\* A statement that does not assign y leaves the Stable binding of y alone;
\* print y writes its value.
C9_KeepStep ==
    (StmtStep /\ BoundStable("y")
        /\ ~(stmt'.k = "Assignment" /\ stmt'.name = "y"))
    => /\ "y" \in DOMAIN globals'
       /\ globals'["y"] = globals["y"]
       /\ (stmt' = PrintStmt(Identifier("y")) =>
              /\ status' = "running"
              /\ out' = <<[line |-> "print", v |-> globals["y"].value]>>)

\* energy[100], stable y <- 10.
C9_Scenario ==
    (/\ StmtStep
     /\ steps = 1
     /\ stmt = EnergyDecl(100)
     /\ stmt' = Assignment("y", Number(10), TRUE))
    => /\ status' = "running"
       /\ current_energy' = 95
       /\ globals'["y"] = StableValue(Num(10))

C9_StableAssignment ==
    /\ []C9_StableRead
    /\ [][C9_AssignStep /\ C9_KeepStep /\ C9_Scenario]_vars

\* y, bound by stable y <- 10, printed after other statements ran.
C9_Witness ==
    /\ steps >= 4
    /\ stmt = PrintStmt(Identifier("y"))
    /\ BoundStable("y")
    /\ globals["y"].value = Num(10)
    /\ out = <<[line |-> "print", v |-> Num(10)]>>
    /\ "x" \in DOMAIN globals
    /\ current_energy = 95

(***************************************************************************)
(* C10.  A stable assignment is charged before its right-hand side is      *)
(* evaluated: it fails with insufficient energy exactly when               *)
(* current_energy is below 5 at the start of the statement, and a failed   *)
(* one has done nothing of its right-hand side (no access count advanced,  *)
(* no function called, no escrow released).                                *)
(***************************************************************************)
\* Stated for the statements whose right-hand side evaluates without error.
InsufficientEnergy == "Insufficient energy for stable assignment"

C10_ChargedBeforeRhs ==
    [][(/\ StmtStep
        /\ stmt'.k = "Assignment"
        /\ stmt'.is_stable
        /\ eval_expr(RT, stmt'.value).s.err = "") =>
        /\ (status' = "error" /\ error' = InsufficientEnergy)
              <=> current_energy < 5
        /\ (status' = "error" /\ error' = InsufficientEnergy) =>
              /\ globals' = globals
              /\ escrows' = escrows
              /\ current_energy' = current_energy]_vars

(***************************************************************************)
(* Programs with guarantees that can fail: stable assignments on a small   *)
(* budget, invariants, and the removal of the invariants capability.       *)
(***************************************************************************)
\* energy[5], energy[100]
GuardEnergyDecls == <<EnergyDecl(5), EnergyDecl(100)>>
\* x <- 5, x <- 20
GuardAssignments ==
    <<Assignment("x", Number(5), FALSE), Assignment("x", Number(20), FALSE)>>
\* stable x <- 10, stable y <- 20
GuardStableAssignments ==
    <<Assignment("x", Number(10), TRUE), Assignment("y", Number(20), TRUE)>>
\* invariant x > 10, invariant x > 4
GuardInvariants ==
    <<Invariant(BinaryOp(Identifier("x"), ">", Number(10))),
      Invariant(BinaryOp(Identifier("x"), ">", Number(4)))>>
\* print x
GuardPrints == <<PrintStmt(Identifier("x"))>>
\* remove[invariants]
GuardRemoves == <<Remove("invariants")>>

\* The next top-level statement is an energy declaration.
GuardEnergyDecl ==
    \E i \in DOMAIN GuardEnergyDecls :
        /\ stmt' = GuardEnergyDecls[i]
        /\ Step(GuardEnergyDecls[i])

\* The next top-level statement is a plain assignment.
GuardAssignment ==
    \E i \in DOMAIN GuardAssignments :
        /\ stmt' = GuardAssignments[i]
        /\ Step(GuardAssignments[i])

\* The next top-level statement is a stable assignment.
GuardStableAssignment ==
    \E i \in DOMAIN GuardStableAssignments :
        /\ stmt' = GuardStableAssignments[i]
        /\ Step(GuardStableAssignments[i])

\* The next top-level statement is an invariant.
GuardInvariant ==
    \E i \in DOMAIN GuardInvariants :
        /\ stmt' = GuardInvariants[i]
        /\ Step(GuardInvariants[i])

\* The next top-level statement is a print.
GuardPrint ==
    \E i \in DOMAIN GuardPrints :
        /\ stmt' = GuardPrints[i]
        /\ Step(GuardPrints[i])

\* The next top-level statement is a remove.
GuardRemove ==
    \E i \in DOMAIN GuardRemoves :
        /\ stmt' = GuardRemoves[i]
        /\ Step(GuardRemoves[i])

GuardNext ==
    \/ GuardEnergyDecl
    \/ GuardAssignment
    \/ GuardStableAssignment
    \/ GuardInvariant
    \/ GuardPrint
    \/ GuardRemove
    \/ Finish

SpecGuard == Init /\ [][GuardNext]_vars

(***************************************************************************)
(* C11.  A statement whose spend fails is fatal: with energy[5],           *)
(* stable x <- 10, stable y <- 20 the second assignment raises, y is not   *)
(* bound, current_energy stays 0, x stays bound, and no later statement    *)
(* runs.                                                                   *)
(***************************************************************************)
\* A stable assignment of a literal, or an invariant, that cannot be paid.
C11_FailedSpendStep ==
    /\ (StmtStep /\ stmt'.k = "Assignment" /\ stmt'.is_stable
            /\ current_energy < 5)
       => /\ status' = "error"
          /\ error' = InsufficientEnergy
          /\ current_energy' = current_energy
          /\ globals' = globals
    /\ (StmtStep /\ stmt'.k = "Invariant" /\ has_capability(RT, "invariants")
            /\ current_energy < 10)
       => /\ status' = "error"
          /\ error' = "Insufficient energy for invariant"
          /\ current_energy' = current_energy
          /\ invariants' = invariants
          /\ globals' = globals

\* energy[5], stable x <- 10, then stable y <- 20.
C11_Scenario ==
    (/\ StmtStep
     /\ steps = 2
     /\ max_energy = 5
     /\ stmt = Assignment("x", Number(10), TRUE)
     /\ stmt' = Assignment("y", Number(20), TRUE))
    => /\ status' = "error"
       /\ error' = InsufficientEnergy
       /\ "y" \notin DOMAIN globals'
       /\ current_energy' = 0
       /\ globals'["x"] = StableValue(Num(10))

\* Nothing runs once an error has ended the run.
C11_Halted == status = "running"

C11_FatalSpend ==
    [][C11_FailedSpendStep /\ C11_Scenario /\ C11_Halted]_vars

C11_Witness ==
    /\ status = "error"
    /\ error = InsufficientEnergy
    /\ steps = 3
    /\ stmt = Assignment("y", Number(20), TRUE)
    /\ max_energy = 5
    /\ current_energy = 0
    /\ globals = [x |-> StableValue(Num(10))]

(***************************************************************************)
(* C12.  stabilize x deducts exactly 5 and freezes x at the value its next *)
(* read would have returned; every later read returns that constant,       *)
(* however many follow: energy[100], x <- 5, stabilize x gives 95 and x    *)
(* is marked stable.                                                       *)
(***************************************************************************)
\* name is bound, globally, to an Unstable value, not frozen / frozen.
Unfrozen(name) ==
    /\ name \in DOMAIN globals
    /\ globals[name].t = "UnstableValue"
    /\ ~globals[name].is_stable

Frozen(name) ==
    /\ name \in DOMAIN globals
    /\ globals[name].t = "UnstableValue"
    /\ globals[name].is_stable

\* What the next read of an unfrozen x returns: base plus reads so far.
NextRead(name) ==
    Num(globals[name].base_value.v + globals[name].access_count)

\* A stabilize that succeeded on an unfrozen x.
C12_StabilizeStep ==
    (StmtStep /\ stmt' = StabilizeStmt("x") /\ status' = "running")
    => /\ current_energy' = current_energy - 5
       /\ Unfrozen("x") =>
            /\ globals'["x"].is_stable
            /\ value_get(globals'["x"]).v = NextRead("x")
            /\ value_get(globals'["x"]).var = globals'["x"]

\* Reading a frozen x, once and again, returns its constant and changes
\* nothing.
C12_FrozenRead ==
    Frozen("x") =>
        LET once == eval_expr(RT, Identifier("x"))
        IN  /\ once.v = globals["x"].base_value
            /\ once.s = RT
            /\ eval_expr(once.s, Identifier("x")).v = once.v

\* A frozen x changes only when x is assigned; print x writes the constant.
C12_KeepStep ==
    (StmtStep /\ Frozen("x") /\ ~(stmt'.k = "Assignment" /\ stmt'.name = "x"))
    => /\ "x" \in DOMAIN globals'
       /\ globals'["x"] = globals["x"]
       /\ (stmt' = PrintStmt(Identifier("x")) =>
              out' = <<[line |-> "print", v |-> globals["x"].base_value]>>)

\* energy[100], x <- 5, stabilize x.
C12_Scenario ==
    (/\ StmtStep
     /\ steps = 2
     /\ max_energy = 100
     /\ current_energy = 100
     /\ stmt = Assignment("x", Number(5), FALSE)
     /\ stmt' = StabilizeStmt("x"))
    => /\ status' = "running"
       /\ current_energy' = 95
       /\ globals'["x"].is_stable
       /\ value_get(globals'["x"]).v = Num(5)

C12_StabilizeFreezes ==
    /\ []C12_FrozenRead
    /\ [][C12_StabilizeStep /\ C12_KeepStep /\ C12_Scenario]_vars

\* x <- 5 read twice, frozen at 7, and printed as 7.
C12_Witness ==
    /\ stmt = PrintStmt(Identifier("x"))
    /\ Frozen("x")
    /\ globals["x"].base_value = Num(7)
    /\ globals["x"].access_count = 2
    /\ out = <<[line |-> "print", v |-> Num(7)]>>
    /\ current_energy = 95

(***************************************************************************)
(* C13.  An Unstable value of base b read repeatedly without stabilizing   *)
(* returns b, b+1, b+2, ...: the n-th read, counting from 0, returns b+n,  *)
(* so successive reads differ by an amount non-decreasing in the read      *)
(* index.                                                                  *)
(***************************************************************************)
\* Three reads in a row of an unfrozen x that n reads preceded.
C13_Reads ==
    Unfrozen("x") =>
        LET b == globals["x"].base_value.v
            n == globals["x"].access_count
            r0 == value_get(globals["x"])
            r1 == value_get(r0.var)
            r2 == value_get(r1.var)
        IN  /\ r0.v = Num(b + n)
            /\ r1.v = Num(b + n + 1)
            /\ r2.v = Num(b + n + 2)
            /\ r2.v.v - r1.v.v >= r1.v.v - r0.v.v
            /\ r2.var.access_count = n + 3
            /\ r2.var.base_value = Num(b)

\* A plain assignment starts the count at 0; print x is read number
\* access_count and advances the count by one.
C13_ReadStep ==
    /\ (StmtStep /\ stmt'.k = "Assignment" /\ stmt'.name = "x"
            /\ status' = "running")
       => /\ globals'["x"].access_count = 0
          /\ ~globals'["x"].is_stable
    /\ (StmtStep /\ stmt' = PrintStmt(Identifier("x")) /\ Unfrozen("x"))
       => /\ status' = "running"
          /\ out' = <<[line |-> "print", v |-> NextRead("x")]>>
          /\ globals'["x"] =
                [globals["x"] EXCEPT !.access_count = @ + 1]

C13_UnstableDrift == []C13_Reads /\ [][C13_ReadStep]_vars

\* x <- 5 printed four times: the fourth print wrote 8.
C13_Witness ==
    /\ stmt = PrintStmt(Identifier("x"))
    /\ Unfrozen("x")
    /\ globals["x"].base_value = Num(5)
    /\ globals["x"].access_count = 4
    /\ out = <<[line |-> "print", v |-> Num(8)]>>

(***************************************************************************)
(* C14.  An invariant statement whose expression is false when declared    *)
(* fails the program at that statement and nothing runs after it (x <- 5   *)
(* then invariant x > 10); when the expression is true the statement       *)
(* deducts exactly 10.                                                     *)
(***************************************************************************)
\* What a read of the bound x returns now.
ReadsAs(var) ==
    IF var.t = "StableValue" THEN var.value.v
    ELSE IF var.is_stable THEN var.base_value.v
    ELSE var.base_value.v + var.access_count

\* An invariant statement that is allowed and paid for, over a bound x.
C14_DeclareStep ==
    (/\ StmtStep
     /\ stmt'.k = "Invariant"
     /\ has_capability(RT, "invariants")
     /\ current_energy >= 10
     /\ "x" \in DOMAIN globals)
    => IF ReadsAs(globals["x"]) > stmt'.condition.right.value
       THEN /\ status' = "running"
            /\ current_energy' = current_energy - 10
            /\ invariants' = Append(invariants, stmt'.condition)
       ELSE /\ status' = "error"
            /\ error' = "Invariant violated on declaration"

\* x <- 5 then invariant x > 10; nothing runs after an error.
C14_Scenario ==
    /\ status = "running"
    /\ (/\ StmtStep
        /\ stmt = Assignment("x", Number(5), FALSE)
        /\ stmt' = Invariant(BinaryOp(Identifier("x"), ">", Number(10))))
       => /\ status' = "error"
          /\ (current_energy >= 10 /\ has_capability(RT, "invariants"))
                => error' = "Invariant violated on declaration"

C14_InvariantDeclared == [][C14_DeclareStep /\ C14_Scenario]_vars

C14_Witness ==
    /\ status = "error"
    /\ error = "Invariant violated on declaration"
    /\ stmt = Invariant(BinaryOp(Identifier("x"), ">", Number(10)))
    /\ steps = 3
    /\ globals["x"].base_value = Num(5)
    /\ max_energy = 100

(***************************************************************************)
(* C15.  While the invariants capability is held every registered          *)
(* invariant is evaluated again after each top-level statement; a false    *)
(* one fails the run there and no later statement runs.                    *)
(***************************************************************************)
\* Whether x is an Unstable value that still drifts, in the record e.
Drifts(e) ==
    /\ e.globals["x"].t = "UnstableValue"
    /\ ~e.globals["x"].is_stable

\* The invariants of e that are false when evaluated in order, each
\* evaluation being one more read of x.
FalseInvariants(e) ==
    {i \in 1..Len(e.invariants) :
        ~(ReadsAs(e.globals["x"]) + (IF Drifts(e) THEN i - 1 ELSE 0)
            > e.invariants[i].right.value)}

Least(S) == CHOOSE i \in S : \A j \in S : i <= j

\* e is the record the statement left: the invariants are evaluated in
\* order up to the first false one.
C15_Rechecked(e) ==
    (e.err = "" /\ has_capability(e, "invariants") /\ Len(e.invariants) > 0)
    => IF FalseInvariants(e) = {}
       THEN /\ status' = "running"
            /\ globals'["x"] =
                 IF Drifts(e)
                 THEN [e.globals["x"] EXCEPT
                          !.access_count = @ + Len(e.invariants)]
                 ELSE e.globals["x"]
       ELSE /\ status' = "error"
            /\ error' = "Invariant violated"
            /\ globals'["x"] =
                 IF Drifts(e)
                 THEN [e.globals["x"] EXCEPT
                          !.access_count = @ + Least(FalseInvariants(e))]
                 ELSE e.globals["x"]

C15_RecheckStep ==
    /\ status = "running"
    /\ StmtStep => C15_Rechecked(exec_stmt(RT, stmt'))

C15_InvariantsRechecked == [][C15_RecheckStep]_vars

\* x <- 5 after invariant x > 10 was registered over x <- 20.
C15_Witness ==
    /\ status = "error"
    /\ error = "Invariant violated"
    /\ stmt = Assignment("x", Number(5), FALSE)
    /\ Len(invariants) = 2
    /\ globals["x"].access_count = 2

(***************************************************************************)
(* C16.  Once remove[invariants] has succeeded the registered invariants   *)
(* are never evaluated again, so a statement that makes one false does     *)
(* not fail the run, and a later invariant statement is fatal, deducts     *)
(* nothing and registers nothing.                                          *)
(***************************************************************************)
\* e is the record the statement left: the step ends there.
C16_Unchecked(e) ==
    /\ globals' = e.globals
    /\ error' = e.err
    /\ status' = IF e.err = "" THEN "running" ELSE "error"

C16_RemovedStep ==
    /\ (StmtStep /\ "invariants" \in removed_capabilities')
       => C16_Unchecked(exec_stmt(RT, stmt'))
    /\ (StmtStep /\ "invariants" \in removed_capabilities
            /\ stmt'.k = "Invariant")
       => /\ status' = "error"
          /\ error' = "Invariants capability has been removed"
          /\ current_energy' = current_energy
          /\ invariants' = invariants
          /\ globals' = globals
    /\ (StmtStep /\ "invariants" \in removed_capabilities
            /\ stmt' = Assignment("x", Number(5), FALSE))
       => /\ status' = "running"
          /\ globals'["x"] = UnstableValue(Num(5))
          /\ invariants' = invariants
    /\ (StmtStep /\ "invariants" \in removed_capabilities
            /\ stmt' = PrintStmt(Identifier("x")) /\ "x" \in DOMAIN globals)
       => /\ status' = "running"
          /\ out' = <<[line |-> "print", v |-> Num(ReadsAs(globals["x"]))]>>

C16_AfterRemoval == [][C16_RemovedStep]_vars

\* invariant x > 10 is registered and removed from checking; x was then set
\* to 5 and printed.
C16_Witness ==
    /\ status = "running"
    /\ "invariants" \in removed_capabilities
    /\ Len(invariants) >= 1
    /\ invariants[1] = BinaryOp(Identifier("x"), ">", Number(10))
    /\ stmt = PrintStmt(Identifier("x"))
    /\ out = <<[line |-> "print", v |-> Num(5)]>>

(***************************************************************************)
(* Programs with scopes: functions that assign, return nothing or loop,    *)
(* for statements, a top-level return and an invariant over a call.        *)
(***************************************************************************)
\* j <- i, the body of the loops
LoopBody == <<Assignment("j", Identifier("i"), FALSE)>>
\* for i in <range 1..3> { j <- i }: the iterable is a Range node
ForRange == For("i", Range(Number(1), Number(3), NoNode), LoopBody)
\* for i in n { j <- i }
ForName == For("i", Identifier("n"), LoopBody)
\* declare fn shadow(n) { n <- 9  return n }
DeclShadow ==
    FunctionDecl("shadow", <<"n">>,
                 <<Assignment("n", Number(9), FALSE), Return(Identifier("n"))>>,
                 FALSE, FALSE)
\* declare fn quiet() { j <- 1 }
DeclQuiet ==
    FunctionDecl("quiet", << >>, <<Assignment("j", Number(1), FALSE)>>,
                 FALSE, FALSE)
\* declare pure fn blank() { return }
DeclBlank == FunctionDecl("blank", << >>, <<Return(NoNode)>>, TRUE, FALSE)
\* declare unstable fn loop() { for i in <range 1..3> { j <- i } }
DeclLoop == FunctionDecl("loop", << >>, <<ForRange>>, FALSE, TRUE)

\* energy[100], energy[2]
ScopeEnergyDecls == <<EnergyDecl(100), EnergyDecl(2)>>
\* n <- 1, i <- 7, y <- shadow(3), y <- quiet(), y <- blank()
ScopeAssignments ==
    <<Assignment("n", Number(1), FALSE),
      Assignment("i", Number(7), FALSE),
      Assignment("y", FunctionCall("shadow", <<Number(3)>>), FALSE),
      Assignment("y", FunctionCall("quiet", << >>), FALSE),
      Assignment("y", FunctionCall("blank", << >>), FALSE)>>
ScopeFunctionDecls == <<DeclShadow, DeclQuiet, DeclBlank, DeclLoop>>
\* loop()
ScopeCalls == <<FunctionCall("loop", << >>)>>
ScopeFors == <<ForRange, ForName>>
\* invariant quiet() == 0
ScopeInvariants ==
    <<Invariant(BinaryOp(FunctionCall("quiet", << >>), "==", Number(0)))>>
\* return 5
ScopeReturns == <<Return(Number(5))>>

\* The next top-level statement is an energy declaration.
ScopeEnergyDecl ==
    \E i \in DOMAIN ScopeEnergyDecls :
        /\ stmt' = ScopeEnergyDecls[i]
        /\ Step(ScopeEnergyDecls[i])

\* The next top-level statement is a plain assignment.
ScopeAssignment ==
    \E i \in DOMAIN ScopeAssignments :
        /\ stmt' = ScopeAssignments[i]
        /\ Step(ScopeAssignments[i])

\* The next top-level statement is a function declaration.
ScopeFunctionDecl ==
    \E i \in DOMAIN ScopeFunctionDecls :
        /\ stmt' = ScopeFunctionDecls[i]
        /\ Step(ScopeFunctionDecls[i])

\* The next top-level statement is a function call.
ScopeCall ==
    \E i \in DOMAIN ScopeCalls :
        /\ stmt' = ScopeCalls[i]
        /\ Step(ScopeCalls[i])

\* The next top-level statement is a for.
ScopeFor ==
    \E i \in DOMAIN ScopeFors :
        /\ stmt' = ScopeFors[i]
        /\ Step(ScopeFors[i])

\* The next top-level statement is an invariant.
ScopeInvariant ==
    \E i \in DOMAIN ScopeInvariants :
        /\ stmt' = ScopeInvariants[i]
        /\ Step(ScopeInvariants[i])

\* The next top-level statement is a return.
ScopeReturn ==
    \E i \in DOMAIN ScopeReturns :
        /\ stmt' = ScopeReturns[i]
        /\ Step(ScopeReturns[i])

ScopeNext ==
    \/ ScopeEnergyDecl
    \/ ScopeAssignment
    \/ ScopeFunctionDecl
    \/ ScopeCall
    \/ ScopeFor
    \/ ScopeInvariant
    \/ ScopeReturn
    \/ Finish

SpecScope == Init /\ [][ScopeNext]_vars

(***************************************************************************)
(* C17.  A for-loop variable is bound locally: a global of the same name   *)
(* that existed before the loop has its pre-loop binding after the loop,   *)
(* at top level and inside a function body, while a plain assignment in    *)
(* the loop body does overwrite the global of its name.                    *)
(***************************************************************************)
\* The loop of a for statement run at top level over the items 1, 2 with a
\* global i bound before it.
C17_LoopKeepsGlobal ==
    ("i" \in DOMAIN globals /\ locals_stack = << >> /\ ~returning)
    => LET looped == exec_for_items(RT, ForName, <<Num(1), Num(2)>>)
       IN  /\ looped.err = ""
           /\ looped.globals["i"] = globals["i"]
           /\ looped.globals["j"] = UnstableValue(Num(2))

\* A for statement at top level, and one in the body of loop(): the loop
\* ran, the global i is as before, and the body's j <- i wrote the global j.
C17_ForStep ==
    (/\ StmtStep
     /\ ~returning
     /\ "i" \in DOMAIN globals
     /\ \/ stmt'.k = "For" /\ (stmt' = ForName => "n" \in DOMAIN globals)
        \/ stmt' = FunctionCall("loop", << >>) /\ "loop" \in DOMAIN globals)
    => /\ status' = "running"
       /\ globals'["i"] = globals["i"]
       /\ "j" \in DOMAIN globals'
       /\ globals'["j"].t = "UnstableValue"

C17_ForBindsLocally == []C17_LoopKeepsGlobal /\ [][C17_ForStep]_vars

(***************************************************************************)
(* C18.  Inside a function body a plain assignment writes the global map,  *)
(* also when the name is a parameter: the global is (re)bound and stays    *)
(* bound after the call, the parameter keeps reading as its Stable         *)
(* argument for the rest of the call, and binding the parameters changes   *)
(* no global.                                                              *)
(***************************************************************************)
\* The frame of a call with parameter n and argument 3.
Called == bind_params(push_scope(RT), <<"n">>, <<Num(3)>>)

\* Binding the parameter leaves the globals alone; after n <- 9 in the body
\* the global n is Unstable 9 and n still reads as the Stable argument.
C18_InBody ==
    /\ Called.globals = globals
    /\ get_var(Called, "n").var = StableValue(Num(3))
    /\ ~returning =>
         LET assigned == exec_stmt(Called, Assignment("n", Number(9), FALSE))
         IN  /\ "n" \in DOMAIN assigned.globals
             /\ assigned.globals["n"] = UnstableValue(Num(9))
             /\ get_var(assigned, "n").var = StableValue(Num(3))
             /\ get_var(assigned, "n").scope = "local"
             /\ eval_expr(assigned, Identifier("n")).v = Num(3)

\* y <- shadow(3) and y <- quiet(): what the bodies assigned is global after
\* the call, and shadow returned its argument.
C18_CallStep ==
    /\ (StmtStep /\ ~returning /\ "shadow" \in DOMAIN globals
            /\ stmt' = Assignment("y", FunctionCall("shadow", <<Number(3)>>),
                                  FALSE))
       => /\ status' = "running"
          /\ "n" \in DOMAIN globals'
          /\ globals'["n"] = UnstableValue(Num(9))
          /\ globals'["y"] = UnstableValue(Num(3))
          /\ locals_stack' = << >>
    /\ (StmtStep /\ ~returning /\ "quiet" \in DOMAIN globals
            /\ stmt' = Assignment("y", FunctionCall("quiet", << >>), FALSE))
       => /\ status' = "running"
          /\ "j" \in DOMAIN globals'
          /\ globals'["j"] = UnstableValue(Num(1))
          /\ locals_stack' = << >>

C18_AssignmentsAreGlobal == []C18_InBody /\ [][C18_CallStep]_vars

\* n <- 1 was read by nothing and rebound by the call of shadow.
C18_Witness ==
    /\ status = "running"
    /\ stmt = Assignment("y", FunctionCall("shadow", <<Number(3)>>), FALSE)
    /\ "n" \in DOMAIN globals
    /\ globals["n"] = UnstableValue(Num(9))
    /\ globals["y"] = UnstableValue(Num(3))
    /\ "i" \in DOMAIN globals
    /\ steps >= 4

(***************************************************************************)
(* C19.  A call whose body ends without executing return, or executes      *)
(* return with no value, yields the number 0 to the caller; a call never   *)
(* yields no value.                                                        *)
(***************************************************************************)
\* quiet() has no return and blank() returns no value.  The one invariant
\* of these programs, quiet() == 0, is false only if a call of quiet
\* yields something other than 0.
C19_InvariantHolds ==
    error \notin {"Invariant violated", "Invariant violated on declaration"}

C19_CallStep ==
    (/\ StmtStep
     /\ ~returning
     /\ stmt'.k = "Assignment"
     /\ stmt'.name = "y"
     /\ stmt'.value.name \in {"quiet", "blank"}
     /\ stmt'.value.name \in DOMAIN globals)
    => /\ status' = "running"
       /\ globals'["y"] = UnstableValue(Num(0))

C19_CallYieldsZero == []C19_InvariantHolds /\ [][C19_CallStep]_vars

(***************************************************************************)
(* C20.  A function declaration deducts 1 if unstable, 3 if pure, 3        *)
(* otherwise, before it binds the function globally; an escrow of amount   *)
(* 4, not released, call count 0 is created exactly when the declaration   *)
(* is unstable; when the spend fails the function is not bound and no      *)
(* escrow is created or changed.                                           *)
(***************************************************************************)
DeclarationCost(decl) ==
    IF decl.is_unstable THEN 1 ELSE IF decl.is_pure THEN 3 ELSE 3

C20_DeclareStep ==
    (StmtStep /\ ~returning /\ stmt'.k = "FunctionDecl")
    => IF current_energy >= DeclarationCost(stmt')
       THEN /\ status' = "running"
            /\ current_energy' = current_energy - DeclarationCost(stmt')
            /\ globals'[stmt'.name] =
                 [t |-> "Function", name |-> stmt'.name,
                  params |-> stmt'.params, body |-> stmt'.body,
                  is_pure |-> stmt'.is_pure, is_unstable |-> stmt'.is_unstable]
            /\ IF stmt'.is_unstable
               THEN /\ DOMAIN escrows' = DOMAIN escrows \cup {stmt'.name}
                    /\ escrows'[stmt'.name] =
                         [function_name |-> stmt'.name, amount |-> 4,
                          released |-> FALSE, call_count |-> 0,
                          last_output |-> None]
                    /\ \A n \in DOMAIN escrows \ {stmt'.name} :
                          escrows'[n] = escrows[n]
               ELSE escrows' = escrows
       ELSE /\ status' = "error"
            /\ error' = "Insufficient energy to declare function"
            /\ current_energy' = current_energy
            /\ globals' = globals
            /\ escrows' = escrows

C20_Declaration == [][C20_DeclareStep]_vars

\* energy[2]: the unstable declaration was paid, the pure one was not.
C20_Witness ==
    /\ status = "error"
    /\ error = "Insufficient energy to declare function"
    /\ stmt = DeclBlank
    /\ current_energy = 1
    /\ "blank" \notin DOMAIN globals
    /\ "loop" \in DOMAIN escrows
    /\ "loop" \in DOMAIN globals

(***************************************************************************)
(* Programs over if, while and inspect: SpecFlow runs them with the        *)
(* energy declarations of SpecScope.  The parser sends every statement     *)
(* that begins with `stable` to parse_stable_assignment, so a stable if    *)
(* reaches exec_stmt only as an If node built with is_stable = True.       *)
(***************************************************************************)
\* x <- 5, stable counter <- 0, stable sum <- 0
FlowAssignments ==
    <<Assignment("x", Number(5), FALSE),
      Assignment("counter", Number(0), TRUE),
      Assignment("sum", Number(0), TRUE)>>
\* stable if x > 5 { y <- 1 } else { y <- 2 }, if x > 5 { y <- 1 }
FlowIfs ==
    <<If(BinaryOp(Identifier("x"), ">", Number(5)),
         <<Assignment("y", Number(1), FALSE)>>,
         <<Assignment("y", Number(2), FALSE)>>, TRUE),
      If(BinaryOp(Identifier("x"), ">", Number(5)),
         <<Assignment("y", Number(1), FALSE)>>, << >>, FALSE)>>
\* while counter < n { sum <- sum + counter  counter <- counter + 1 }
CountingLoop(n) ==
    While(BinaryOp(Identifier("counter"), "<", Number(n)),
          <<Assignment("sum",
                       BinaryOp(Identifier("sum"), "+", Identifier("counter")),
                       FALSE),
            Assignment("counter",
                       BinaryOp(Identifier("counter"), "+", Number(1)),
                       FALSE)>>)
\* the loop of test_while_loop, and the same loop up to 2
FlowWhiles == <<CountingLoop(5), CountingLoop(2)>>
\* inspect x
FlowInspects == <<Inspect(Identifier("x"))>>

\* The next top-level statement is an assignment.
FlowAssignment ==
    \E i \in DOMAIN FlowAssignments :
        /\ stmt' = FlowAssignments[i]
        /\ Step(FlowAssignments[i])

\* The next top-level statement is an if.
FlowIf ==
    \E i \in DOMAIN FlowIfs :
        /\ stmt' = FlowIfs[i]
        /\ Step(FlowIfs[i])

\* The next top-level statement is a while.
FlowWhile ==
    \E i \in DOMAIN FlowWhiles :
        /\ stmt' = FlowWhiles[i]
        /\ Step(FlowWhiles[i])

\* The next top-level statement is an inspect.
FlowInspect ==
    \E i \in DOMAIN FlowInspects :
        /\ stmt' = FlowInspects[i]
        /\ Step(FlowInspects[i])

FlowNext ==
    \/ ScopeEnergyDecl
    \/ FlowAssignment
    \/ FlowIf
    \/ FlowWhile
    \/ FlowInspect
    \/ Finish

SpecFlow == Init /\ [][FlowNext]_vars

(***************************************************************************)
(* C21.  A stable if deducts exactly 3 before its condition is evaluated,  *)
(* whichever branch is taken; with less than 3 it fails without reading    *)
(* the condition's variable and without running a branch.  A plain if      *)
(* deducts nothing.                                                        *)
(***************************************************************************)
\* The if of FlowIfs read x: its access count advanced by one.
C21_ConditionRead ==
    /\ "x" \in DOMAIN globals'
    /\ globals'["x"] = [globals["x"] EXCEPT !.access_count = @ + 1]

\* The branch of the if that matches what the condition read was run.
C21_BranchRun ==
    /\ "y" \in DOMAIN globals'
    /\ IF value_get(globals["x"]).v.v > 5
       THEN globals'["y"] = UnstableValue(Num(1))
       ELSE IF stmt'.else_block # << >>
       THEN globals'["y"] = UnstableValue(Num(2))
       ELSE "y" \in DOMAIN globals /\ globals'["y"] = globals["y"]

C21_IfRun ==
    IF "x" \in DOMAIN globals
    THEN /\ status' = "running"
         /\ C21_ConditionRead
         /\ IF value_get(globals["x"]).v.v > 5 \/ stmt'.else_block # << >>
            THEN C21_BranchRun
            ELSE DOMAIN globals' = DOMAIN globals
    ELSE /\ status' = "error"
         /\ error' = "Undefined variable"
         /\ globals' = globals

C21_IfStep ==
    (StmtStep /\ stmt'.k = "If")
    => IF stmt'.is_stable /\ current_energy < 3
       THEN /\ status' = "error"
            /\ error' = "Insufficient energy for stable if"
            /\ current_energy' = current_energy
            /\ globals' = globals
       ELSE /\ current_energy' =
                 current_energy - (IF stmt'.is_stable THEN 3 ELSE 0)
            /\ C21_IfRun

SumBelow(n) == (n * (n - 1)) \div 2

C22_LoopStep ==
    (/\ StmtStep
     /\ \E n \in {2, 5} : stmt' = CountingLoop(n)
     /\ "counter" \in DOMAIN globals
     /\ "sum" \in DOMAIN globals
     /\ globals["counter"] = StableValue(Num(0))
     /\ globals["sum"] = StableValue(Num(0)))
    => /\ status' = "running"
       /\ "sum" \in DOMAIN globals'
       /\ \A n \in {2, 5} :
             stmt' = CountingLoop(n)
             => value_get(globals'["sum"]).v = Num(SumBelow(n))

C22_CountingLoop == [][C22_LoopStep]_vars

(***************************************************************************)
(* C23.  inspect x on an unstable x that was not stabilized deducts        *)
(* exactly 2 and leaves the access count of x, and so the value of its     *)
(* next read, as it was before the statement.                              *)
(***************************************************************************)
C23_InspectStep ==
    (/\ StmtStep
     /\ stmt' = Inspect(Identifier("x"))
     /\ Unfrozen("x")
     /\ current_energy >= 2)
    => /\ status' = "running"
       /\ current_energy' = current_energy - 2
       /\ "x" \in DOMAIN globals'
       /\ globals'["x"].access_count = globals["x"].access_count
       /\ value_get(globals'["x"]).v = value_get(globals["x"]).v

C23_InspectKeepsDrift == [][C23_InspectStep]_vars

(***************************************************************************)
(* Programs over calls that nest, fail or return from inside a block:      *)
(* SpecCall runs them with the energy declarations of SpecScope.           *)
(***************************************************************************)
\* declare unstable fn f(a) { t <- g()  return a + t }
\* declare pure fn f(a) { return a }
\* declare fn g() { return a }
\* declare unstable fn r() { if c > 0 { return 0 } }
\* declare fn h() {
\*   while c < 4 { stable z <- 1  if c > 0 { return 7  stable q <- 1 }
\*                 stable q <- 2 }
\*   stable q <- 3  return 8 }
CallFunctionDecls ==
    <<FunctionDecl("f", <<"a">>,
                   <<Assignment("t", FunctionCall("g", << >>), FALSE),
                     Return(BinaryOp(Identifier("a"), "+", Identifier("t")))>>,
                   FALSE, TRUE),
      FunctionDecl("f", <<"a">>, <<Return(Identifier("a"))>>, TRUE, FALSE),
      FunctionDecl("g", << >>, <<Return(Identifier("a"))>>, FALSE, FALSE),
      FunctionDecl("r", << >>,
                   <<If(BinaryOp(Identifier("c"), ">", Number(0)),
                        <<Return(Number(0))>>, << >>, FALSE)>>,
                   FALSE, TRUE),
      FunctionDecl("h", << >>,
                   <<While(BinaryOp(Identifier("c"), "<", Number(4)),
                           <<Assignment("z", Number(1), TRUE),
                             If(BinaryOp(Identifier("c"), ">", Number(0)),
                                <<Return(Number(7)),
                                  Assignment("q", Number(1), TRUE)>>,
                                << >>, FALSE),
                             Assignment("q", Number(2), TRUE)>>),
                     Assignment("q", Number(3), TRUE),
                     Return(Number(8))>>,
                   FALSE, FALSE)>>
\* c <- 0, stable a <- 50, f <- 3, y <- f(3), y <- f(), y <- c(), y <- r(),
\* y <- h()
CallAssignments ==
    <<Assignment("c", Number(0), FALSE),
      Assignment("a", Number(50), TRUE),
      Assignment("f", Number(3), FALSE),
      Assignment("y", FunctionCall("f", <<Number(3)>>), FALSE),
      Assignment("y", FunctionCall("f", << >>), FALSE),
      Assignment("y", FunctionCall("c", << >>), FALSE),
      Assignment("y", FunctionCall("r", << >>), FALSE),
      Assignment("y", FunctionCall("h", << >>), FALSE)>>

\* The next top-level statement is a function declaration.
CallFunctionDecl ==
    \E i \in DOMAIN CallFunctionDecls :
        /\ stmt' = CallFunctionDecls[i]
        /\ Step(CallFunctionDecls[i])

\* The next top-level statement is an assignment.
CallAssignment ==
    \E i \in DOMAIN CallAssignments :
        /\ stmt' = CallAssignments[i]
        /\ Step(CallAssignments[i])

CallNext ==
    \/ ScopeEnergyDecl
    \/ CallFunctionDecl
    \/ CallAssignment
    \/ Finish

SpecCall == Init /\ [][CallNext]_vars

(***************************************************************************)
(* C24.  In every reachable state an escrow is registered under a name     *)
(* only if the function now bound to that name was declared unstable:      *)
(* once the name is redeclared as a plain or pure function, or rebound by  *)
(* an assignment, no escrow remains under it.                              *)
(***************************************************************************)
C24_EscrowOnlyForUnstable ==
    \A name \in DOMAIN escrows :
        /\ name \in DOMAIN globals
        /\ globals[name].t = "Function"
        /\ globals[name].is_unstable

(***************************************************************************)
(* C25.  Redeclaring an unstable function under the same name replaces     *)
(* its escrow entirely: right after the redeclaration the escrow is        *)
(* amount 4, not released, call count 0, no last output, whatever it was   *)
(* before, so the next call is treated as a first call again.              *)
(***************************************************************************)
\* create_escrow on a name that has an escrow already.
C25_CreateReplaces ==
    \A n \in DOMAIN escrows :
        LET r == create_escrow(RT, n, TRUE)
        IN  /\ DOMAIN r.escrows = DOMAIN escrows
            /\ r.escrows[n] = EnergyEscrow(n, 4)
            /\ \A m \in DOMAIN escrows \ {n} : r.escrows[m] = escrows[m]

\* An unstable declaration of a name that has an escrow already.
C25_RedeclareStep ==
    (/\ StmtStep
     /\ stmt'.k = "FunctionDecl"
     /\ stmt'.is_unstable
     /\ stmt'.name \in DOMAIN escrows
     /\ current_energy >= 1)
    => /\ status' = "running"
       /\ DOMAIN escrows' = DOMAIN escrows
       /\ escrows'[stmt'.name] =
            [function_name |-> stmt'.name, amount |-> 4, released |-> FALSE,
             call_count |-> 0, last_output |-> None]

\* The call that follows a redeclaration of evolve at once.
C25_NextCallStep ==
    (/\ StmtStep
     /\ stmt = DeclEvolve
     /\ status = "running"
     /\ Callee(stmt') = "evolve"
     /\ ~(stmt'.k = "Assignment" /\ stmt'.is_stable)
     /\ status' = "running")
    => /\ current_energy' = current_energy + 4
       /\ "evolve" \in DOMAIN escrows'
       /\ escrows'["evolve"].released
       /\ escrows'["evolve"].call_count = 1
       /\ escrows'["evolve"].last_output = ResultOf(stmt')

C25_RedeclarationResets ==
    []C25_CreateReplaces /\ [][C25_RedeclareStep /\ C25_NextCallStep]_vars

\* energy[100], declare unstable fn evolve, evolve(5): paid out, then
\* declared again.
C25_Witness ==
    /\ stmt = DeclEvolve
    /\ status = "running"
    /\ max_energy = 100
    /\ current_energy = 102
    /\ DOMAIN escrows = {"evolve"}
    /\ escrows["evolve"] = EnergyEscrow("evolve", 4)

(***************************************************************************)
(* C26.  spend, release_escrow (payout or penalty) and                     *)
(* burn_unreleased_escrows never change max_energy: past the energy        *)
(* declaration, max_energy changes only through a successful               *)
(* remove_capability.                                                      *)
(***************************************************************************)
\* The three ledger operations, for every operand, in the present state.
C26_LedgerKeepsCeiling ==
    /\ \A op \in Operations : spend(RT, op).s.max_energy = max_energy
    /\ \A n \in DOMAIN escrows : \A i \in DOMAIN Outputs :
          release_escrow(RT, n, Outputs[i]).s.max_energy = max_energy
    /\ burn_unreleased_escrows(RT).s.max_energy = max_energy

\* A statement other than an energy declaration moves the ceiling only by
\* removing a capability that was not removed before.
C26_CeilingStep ==
    (StmtStep /\ stmt'.k # "EnergyDecl" /\ max_energy' # max_energy)
    => /\ stmt'.k = "Remove"
       /\ status' = "running"
       /\ stmt'.capability \notin removed_capabilities
       /\ stmt'.capability \in removed_capabilities'
       /\ max_energy' = max_energy + ConfiguredGain(stmt'.capability)

\* The sweep at the end of the run.
C26_FinishStep == FinishStep => max_energy' = max_energy

C26_CeilingFrame ==
    []C26_LedgerKeepsCeiling /\ [][C26_CeilingStep /\ C26_FinishStep]_vars

\* A payout, a penalty and the sweep happened, a stable assignment was paid
\* for, and the ceiling is still the declared 100.
C26_Witness ==
    /\ status = "done"
    /\ max_energy = 100
    /\ current_energy = 92
    /\ "evolve" \in DOMAIN escrows
    /\ escrows["evolve"].call_count = 2
    /\ "y" \in DOMAIN globals

(***************************************************************************)
(* C27.  Once a return executes inside a function body, nested blocks      *)
(* included, no later statement of that call has any effect: no energy is  *)
(* spent, nothing is bound, no loop condition is evaluated again, and the  *)
(* call yields the returned value.  What was charged before the return     *)
(* stays charged and the caller's next statements run as usual.            *)
(***************************************************************************)
\* y <- h(), with h declared as in CallFunctionDecls
C27_Call == CallAssignments[8]

\* h() is about to run its loop and can pay for stable z <- 1: the loop
\* condition reads c below 4 and the if reads it above 0.
C27_Returns ==
    /\ "h" \in DOMAIN globals
    /\ Unfrozen("c")
    /\ value_get(globals["c"]).v.v < 4
    /\ current_energy >= 5

\* The names other than y, z and c are bound as before.
C27_OthersKept ==
    /\ DOMAIN globals' = DOMAIN globals \cup {"y", "z"}
    /\ \A n \in DOMAIN globals \ {"y", "z", "c"} : globals'[n] = globals[n]

\* The call ran stable z <- 1, read c twice and returned 7 from inside the
\* if inside the while: neither stable q <- 1, stable q <- 2, stable q <- 3
\* nor return 8 did anything, and c was not read a third time.
C27_CallStep ==
    (StmtStep /\ stmt' = C27_Call /\ C27_Returns)
    => /\ status' = "running"
       /\ current_energy' = current_energy - 5
       /\ C27_OthersKept
       /\ globals'["y"] = UnstableValue(Num(7))
       /\ globals'["z"] = StableValue(Num(1))
       /\ globals'["c"] = [globals["c"] EXCEPT !.access_count = @ + 2]
       /\ locals_stack' = locals_stack
       /\ escrows' = escrows
       /\ ~returning'
       /\ return_value' = None

\* The statement after such a call runs as usual.
C27_AfterStep ==
    (/\ StmtStep
     /\ stmt = C27_Call
     /\ status = "running"
     /\ stmt' = CallAssignments[1])
    => /\ status' = "running"
       /\ "c" \in DOMAIN globals'
       /\ globals'["c"] = UnstableValue(Num(0))

C27_ReturnEndsCall == [][C27_CallStep /\ C27_AfterStep]_vars

\* energy[100], c <- 0, declare fn h, y <- h()
C27_Witness ==
    /\ stmt = C27_Call
    /\ status = "running"
    /\ current_energy = 92
    /\ "y" \in DOMAIN globals
    /\ globals["y"] = UnstableValue(Num(7))
    /\ "z" \in DOMAIN globals
    /\ "q" \notin DOMAIN globals
    /\ "c" \in DOMAIN globals
    /\ globals["c"].access_count = 2

(***************************************************************************)
(* C28.  Name lookup has two levels.  During a call to g made from the     *)
(* body of f, a parameter of f that is no parameter of g resolves to the   *)
(* global of that name, or fails with 'Undefined variable' when there is   *)
(* none; once g has returned, f's parameters resolve to f's arguments      *)
(* again.                                                                  *)
(***************************************************************************)
\* y <- f(3), with f declared as f(a) { t <- g()  return a + t } and g as
\* g() { return a }
C28_Call == CallAssignments[4]

C28_Declared ==
    /\ "f" \in DOMAIN globals
    /\ globals["f"].t = "Function"
    /\ globals["f"].is_unstable
    /\ "g" \in DOMAIN globals

\* In every state, a lookup made under two frames, f's binding a to 3 and
\* g's empty one on top, finds what the globals hold and not f's argument.
C28_TwoLevels ==
    LET inner == push_scope(set_var(push_scope(RT), "a", StableValue(Num(3)), TRUE))
        found == get_var(inner, "a")
    IN  IF "a" \in DOMAIN globals
        THEN found.err = "" /\ found.var = globals["a"] /\ found.scope = "global"
        ELSE found.err = "Undefined variable"

\* g() read the global a = 50 although f's a is 3; after g returned, a in
\* return a + t read f's 3.
C28_CallStep ==
    (StmtStep /\ stmt' = C28_Call /\ C28_Declared)
    => IF "a" \in DOMAIN globals
       THEN /\ status' = "running"
            /\ globals["a"] = StableValue(Num(50))
            /\ globals'["a"] = globals["a"]
            /\ "t" \in DOMAIN globals'
            /\ globals'["t"] =
                 [UnstableValue(Num(50)) EXCEPT !.access_count = 1]
            /\ "y" \in DOMAIN globals'
            /\ globals'["y"] = UnstableValue(Num(53))
            /\ locals_stack' = << >>
       ELSE /\ status' = "error"
            /\ error' = "Undefined variable"
            /\ Len(locals_stack') = 2
            /\ "a" \in DOMAIN locals_stack'[1]
            /\ locals_stack'[1]["a"] = StableValue(Num(3))
            /\ "a" \notin DOMAIN locals_stack'[2]
            /\ "y" \notin DOMAIN globals' \ DOMAIN globals

C28_TwoLevelLookup == []C28_TwoLevels /\ [][C28_CallStep]_vars

\* energy[100], stable a <- 50, both declarations, y <- f(3)
C28_Witness ==
    /\ stmt = C28_Call
    /\ status = "running"
    /\ "y" \in DOMAIN globals
    /\ globals["y"] = UnstableValue(Num(53))
    /\ "a" \in DOMAIN globals
    /\ globals["a"] = StableValue(Num(50))

(***************************************************************************)
(* C29.  A call whose callee is not bound to a Function, or whose number   *)
(* of arguments differs from the number of parameters, fails before any    *)
(* frame is pushed: the frame stack, the escrows and with them the         *)
(* callee's call count are as before the call, and the body did not run.   *)
(***************************************************************************)
\* The call on the right of the next statement cannot be made.
C29_BadCall ==
    /\ stmt'.k = "Assignment"
    /\ stmt'.value.k = "FunctionCall"
    /\ \/ stmt'.value.name \notin DOMAIN globals
       \/ globals[stmt'.value.name].t # "Function"
       \/ Len(globals[stmt'.value.name].params) # Len(stmt'.value.args)

\* The error the call raises.
C29_Error ==
    IF stmt'.value.name \notin DOMAIN globals THEN "Undefined variable"
    ELSE IF globals[stmt'.value.name].t # "Function" THEN "is not a function"
    ELSE "wrong number of args"

C29_BadCallStep ==
    (StmtStep /\ C29_BadCall)
    => /\ status' = "error"
       /\ error' = C29_Error
       /\ locals_stack' = locals_stack
       /\ escrows' = escrows
       /\ globals' = globals
       /\ current_energy' = current_energy

C30_Call == CallAssignments[7]

\* The call about to be made returns 0 explicitly / falls off the end.
C30_Explicit == Unfrozen("c") /\ value_get(globals["c"]).v.v > 0
C30_FallsOff == Unfrozen("c") /\ value_get(globals["c"]).v.v <= 0

\* The second call of r since its declaration, one call returning 0 and the
\* other one nothing.
C30_Mixed ==
    /\ "r" \in DOMAIN globals
    /\ "r" \in DOMAIN escrows
    /\ escrows["r"].call_count = 1
    /\ \/ escrows["r"].last_output = None /\ C30_Explicit
       \/ escrows["r"].last_output = Num(0) /\ C30_FallsOff

C30_SecondCallStep ==
    (StmtStep /\ stmt' = C30_Call /\ C30_Mixed)
    => /\ status' = "running"
       /\ "y" \in DOMAIN globals'
       /\ globals'["y"] = UnstableValue(Num(0))
       /\ current_energy' = current_energy - 6

C30_NoReturnCountsAsZero == [][C30_SecondCallStep]_vars

(***************************************************************************)
(* C31.  A for statement whose iterable is a range expression node runs    *)
(* its body once for each element of the range, in order, the loop         *)
(* variable bound to a Stable value that reads as that element during the  *)
(* pass; it does not fail.                                                 *)
(***************************************************************************)
\* for i in <range 1..3> { j <- i } at top level: the run goes on, and the
\* body's j <- i of the last pass left j holding the last element (2 when
\* the end is excluded, 3 when it is included).
C31_ForRangeStep ==
    (StmtStep /\ ~returning /\ stmt' = ForRange)
    => /\ status' = "running"
       /\ error' = ""
       /\ "j" \in DOMAIN globals'
       /\ globals'["j"] \in {UnstableValue(Num(2)), UnstableValue(Num(3))}

C31_ForOverRange == [][C31_ForRangeStep]_vars

(***************************************************************************)
(* C32.  The drift of an Unstable value is coupled to the ledger: of two   *)
(* runs that read the same unstable variable the same number of times, at  *)
(* least twice, and differ only in the deficit max_energy - current_energy *)
(* at the reads, the one with the larger deficit reads a strictly larger   *)
(* value.                                                                  *)
(***************************************************************************)
\* The present state with the deficit closed, all else equal.
C32_NoDeficit == [RT EXCEPT !.current_energy = max_energy]

\* The second or a later read of x, made under a deficit, against the same
\* read made with no deficit.
C32_DriftFollowsDeficit ==
    (/\ Unfrozen("x")
     /\ globals["x"].access_count >= 1
     /\ max_energy - current_energy > 0)
    => eval_expr(RT, Identifier("x")).v.v
         > eval_expr(C32_NoDeficit, Identifier("x")).v.v

(***************************************************************************)
(* C33.  In every reachable state of a run that starts with an energy      *)
(* declaration of a non-negative amount, current_energy >= 0, whatever     *)
(* declarations, calls, removals and guarantee statements follow.          *)
(***************************************************************************)
C33_EnergyNonNegative == current_energy >= 0

(***************************************************************************)
(* C34.  Scope pushes and pops are balanced: a call that completes         *)
(* without a fatal error leaves the frame stack at the depth it had        *)
(* before the call, nested and recursive calls included, so the stack is   *)
(* empty whenever a top-level statement of a run begins.                   *)
(***************************************************************************)
\* declare fn down(n) { if n > 0 { t <- down(n - 1) }  return n }
C34_Down ==
    Function("down", <<"n">>,
             <<If(BinaryOp(Identifier("n"), ">", Number(0)),
                  <<Assignment("t",
                               FunctionCall("down",
                                   <<BinaryOp(Identifier("n"), "-", Number(1))>>),
                               FALSE)>>,
                  << >>, FALSE),
               Return(Identifier("n"))>>,
             FALSE, FALSE)

\* down(2), three calls deep, made in the present state under one frame
\* that is already there.
C34_Recursion ==
    LET under == push_scope(set_var(RT, "down", C34_Down, FALSE))
        called == eval_expr(under, FunctionCall("down", <<Number(2)>>))
    IN  /\ called.s.err = ""
        /\ called.v = Num(2)
        /\ called.s.locals_stack = under.locals_stack

\* A top-level statement begins only while the run goes on.
C34_EmptyAtTopLevel == status = "running" => locals_stack = << >>

\* A statement that makes a call, nested ones included, and completes.
C34_CallStep ==
    (StmtStep /\ Callee(stmt') # "" /\ status' = "running")
    => locals_stack' = locals_stack

C34_ScopesBalanced ==
    [](C34_Recursion /\ C34_EmptyAtTopLevel) /\ [][C34_CallStep]_vars

\* y <- f(3) completed: g was called from the body of f, f's escrow
\* counted the call, and no frame is left.
C34_Witness ==
    /\ stmt = CallAssignments[4]
    /\ status = "running"
    /\ locals_stack = << >>
    /\ "t" \in DOMAIN globals
    /\ "f" \in DOMAIN escrows
    /\ escrows["f"].call_count = 1

(***************************************************************************)
(* Programs over invariants that read an unstable variable and a           *)
(* top-level return: SpecDrift runs them with the energy declarations,     *)
(* assignments, print and remove of SpecGuard, the unstable declarations   *)
(* of Spec and the return of SpecScope.                                    *)
(***************************************************************************)
\* invariant x < 8, invariant x + x < 16
DriftInvariants ==
    <<Invariant(BinaryOp(Identifier("x"), "<", Number(8))),
      Invariant(BinaryOp(BinaryOp(Identifier("x"), "+", Identifier("x")),
                         "<", Number(16)))>>

\* The next top-level statement is an invariant.
DriftInvariant ==
    \E i \in DOMAIN DriftInvariants :
        /\ stmt' = DriftInvariants[i]
        /\ Step(DriftInvariants[i])

DriftNext ==
    \/ GuardEnergyDecl
    \/ GuardAssignment
    \/ GuardPrint
    \/ GuardRemove
    \/ ExecFunctionDecl
    \/ ScopeReturn
    \/ DriftInvariant
    \/ Finish

SpecDrift == Init /\ [][DriftNext]_vars

(***************************************************************************)
(* C35.  A return executed at top level ends the useful part of the        *)
(* program: where no invariant contains a call, every later top-level      *)
(* statement is skipped with no effect on energy, bindings, escrows or     *)
(* capabilities, while the registered invariants are still rechecked       *)
(* after each skipped statement and the unreleased escrows are still       *)
(* swept at the end.                                                       *)
(***************************************************************************)
\* The statements of SpecDrift.
C35_Statements ==
    GuardEnergyDecls \o GuardAssignments \o GuardPrints \o GuardRemoves
        \o FunctionDecls \o ScopeReturns \o DriftInvariants

RECURSIVE Occurrences(_, _)
\* How many times a registered condition reads name.
Occurrences(expr, name) ==
    IF expr.k = "Identifier" THEN (IF expr.name = name THEN 1 ELSE 0)
    ELSE IF expr.k = "BinaryOp"
    THEN Occurrences(expr.left, name) + Occurrences(expr.right, name)
    ELSE 0

RECURSIVE RecheckReads(_, _)
\* How many times one pass over the invariants list reads name.
RecheckReads(list, name) ==
    IF list = << >> THEN 0
    ELSE Occurrences(Head(list), name) + RecheckReads(Tail(list), name)

\* exec_stmt changes nothing once a return is pending.
C35_Skipped ==
    returning =>
        \A i \in DOMAIN C35_Statements : exec_stmt(RT, C35_Statements[i]) = RT

\* A binding after a recheck: the same object, read some more times.
C35_SameBinding(old, new) ==
    IF old.t = "UnstableValue"
    THEN /\ new.t = "UnstableValue"
         /\ new.base_value = old.base_value
         /\ new.is_stable = old.is_stable
         /\ new.access_count >= old.access_count
    ELSE new = old

\* The recheck after a skipped statement read x once per occurrence in the
\* registered invariants, or stopped at the first invariant found false.
C35_Rechecked ==
    (has_capability(RT, "invariants") /\ Unfrozen("x"))
    => IF status' = "running"
       THEN globals'["x"].access_count =
               globals["x"].access_count + RecheckReads(invariants, "x")
       ELSE /\ error' = "Invariant violated"
            /\ invariants # << >>
            /\ globals'["x"].access_count > globals["x"].access_count

\* A statement that follows a top-level return.
C35_SkipStep ==
    (StmtStep /\ returning)
    => /\ current_energy' = current_energy
       /\ max_energy' = max_energy
       /\ escrows' = escrows
       /\ removed_capabilities' = removed_capabilities
       /\ invariants' = invariants
       /\ locals_stack' = locals_stack
       /\ returning'
       /\ return_value' = return_value
       /\ out' = << >>
       /\ DOMAIN globals' = DOMAIN globals
       /\ \A n \in DOMAIN globals :
             n \in DOMAIN globals' /\ C35_SameBinding(globals[n], globals'[n])
       /\ globals' = check_invariants(RT).globals
       /\ C35_Rechecked

\* The end of a run that returned at top level: no call was made, so every
\* escrow is unreleased and counted.
C35_SweepStep ==
    (FinishStep /\ returning)
    => /\ burned' = 4 * Cardinality(DOMAIN escrows)
       /\ current_energy' = current_energy

C35_TopLevelReturn ==
    []C35_Skipped /\ [][C35_SkipStep /\ C35_SweepStep]_vars

\* energy[100], x <- 5, invariant x < 8, return 5, remove[invariants]: the
\* remove was skipped and the recheck after it read x as 8.
C35_Witness ==
    /\ returning
    /\ stmt = Remove("invariants")
    /\ "invariants" \notin removed_capabilities
    /\ status = "error"
    /\ error = "Invariant violated"
    /\ max_energy = 100

(***************************************************************************)
(* C36.  Checking an invariant is itself a read: the evaluation at the     *)
(* declaration and every recheck after a statement advance the access      *)
(* count of each unstable variable, not stabilized, that the invariant     *)
(* reads, once per occurrence.  Hence for x <- v never reassigned or       *)
(* stabilized, a registered invariant x < c with v < c is violated after   *)
(* finitely many further top-level statements, even if none mentions x.    *)
(* The rechecks, and with them the drift and the violation, stop once the  *)
(* invariants capability is removed.                                       *)
(***************************************************************************)
\* invariant x < 8
C36_Below == DriftInvariants[1]

\* The next statement does not mention x.
C36_Silent == stmt'.k \in {"EnergyDecl", "FunctionDecl", "Remove", "Return"}

C36_Registered == \E i \in DOMAIN invariants : invariants[i] = C36_Below.condition

\* The declaration of an invariant reads x once per occurrence when it is
\* evaluated and once per occurrence of every registered invariant, the
\* new one included, in the recheck that follows.
C36_DeclareStep ==
    (/\ StmtStep
     /\ ~returning
     /\ stmt'.k = "Invariant"
     /\ Unfrozen("x")
     /\ status' = "running")
    => /\ invariants' = Append(invariants, stmt'.condition)
       /\ globals'["x"].access_count =
             globals["x"].access_count
                + Occurrences(stmt'.condition, "x")
                + RecheckReads(invariants', "x")

\* A statement that does not mention x, run while x < 8 is registered and
\* the capability is held before and after it: the recheck reads x once
\* per occurrence, or finds an invariant false.
C36_RecheckStep ==
    (/\ StmtStep
     /\ C36_Silent
     /\ C36_Registered
     /\ Unfrozen("x")
     /\ has_capability(RT, "invariants")
     /\ stmt'.k # "Remove")
    => /\ "x" \in DOMAIN globals'
       /\ IF status' = "running"
          THEN globals'["x"].access_count =
                  globals["x"].access_count + RecheckReads(invariants, "x")
          ELSE /\ error' = "Invariant violated"
               /\ globals'["x"].access_count > globals["x"].access_count

\* With x < 8 the only invariant, the run goes on only while the next read
\* of x is at most 8: x <- 5 survives at most three rechecks.
C36_Bounded ==
    (/\ status = "running"
     /\ invariants = <<C36_Below.condition>>
     /\ has_capability(RT, "invariants")
     /\ Unfrozen("x"))
    => /\ globals["x"].access_count >= 1
       /\ value_get(globals["x"]).v.v <= 8

C36_CheckingReads ==
    []C36_Bounded /\ [][C36_DeclareStep /\ C36_RecheckStep]_vars

\* The statement as given, without the capability: every statement that
\* does not mention x brings x nearer to the bound or ends the run.
C36_AnyStep ==
    (/\ StmtStep
     /\ C36_Silent
     /\ C36_Registered
     /\ Unfrozen("x"))
    => /\ "x" \in DOMAIN globals'
       /\ \/ status' = "error"
          \/ globals'["x"].access_count > globals["x"].access_count

C36_AlwaysViolated == [][C36_AnyStep]_vars

\* energy[100], x <- 5, invariant x < 8 and two declarations that do not
\* mention x: the recheck after the second read 8.
C36_Witness ==
    /\ status = "error"
    /\ error = "Invariant violated"
    /\ stmt = DeclEvolve
    /\ ~returning
    /\ invariants = <<C36_Below.condition>>
    /\ "x" \in DOMAIN globals
    /\ globals["x"] = [UnstableValue(Num(5)) EXCEPT !.access_count = 4]

(***************************************************************************)
(* C37.  Between two consecutive declarations of the same unstable         *)
(* function name its escrow credits energy at most once, 4 on the first    *)
(* completed call, and debits at most one penalty, 6 on the second: a      *)
(* release pays 4 exactly when the call count was 0, takes 6 only when it  *)
(* was 1, and moves no energy otherwise, and the call count that selects   *)
(* the case goes up by one with every release.  The released flag never    *)
(* goes from true back to false and the call count never decreases, except *)
(* by a redeclaration, which installs a fresh escrow.                      *)
(***************************************************************************)
\* release_escrow on every escrow, for every output: what it reports is what
\* it moves, by the call count it found.
C37_Release ==
    \A n \in DOMAIN escrows : \A i \in DOMAIN Outputs :
        LET r == release_escrow(RT, n, Outputs[i])
        IN  /\ r.s.current_energy = current_energy + r.ret
            /\ r.ret \in {4, -6, 0}
            /\ r.ret = 4 <=> escrows[n].call_count = 0
            /\ r.ret = -6 => escrows[n].call_count = 1
            /\ r.s.escrows[n].call_count = escrows[n].call_count + 1
            /\ r.s.escrows[n].released
            /\ escrows[n].released <=> escrows[n].call_count >= 1

\* The statement declares the unstable function n anew.
C37_Redeclares(st, n) ==
    st.k = "FunctionDecl" /\ st.is_unstable /\ st.name = n

\* A statement other than a redeclaration of n keeps the escrow of n, its
\* released flag once set, and its call count, which only a call of n
\* raises, by one.
C37_KeepStep ==
    \A n \in DOMAIN escrows :
        (StmtStep /\ ~C37_Redeclares(stmt', n))
        => /\ n \in DOMAIN escrows'
           /\ escrows[n].released => escrows'[n].released
           /\ escrows'[n].call_count >= escrows[n].call_count
           /\ escrows'[n].call_count <= escrows[n].call_count + 1
           /\ escrows'[n].call_count > escrows[n].call_count
                  => Callee(stmt') = n

\* A redeclaration starts the escrow over.
C37_RedeclareStep ==
    \A n \in {"evolve", "drift"} :
        (StmtStep /\ C37_Redeclares(stmt', n) /\ status' = "running")
        => /\ n \in DOMAIN escrows'
           /\ ~escrows'[n].released
           /\ escrows'[n].call_count = 0

\* What the statement itself spends: 5 for a stable assignment.
C37_Cost(st) == IF st.k = "Assignment" /\ st.is_stable THEN COSTS.stable_var ELSE 0

\* A completed call of n moves, beyond the cost of its statement, 4 in on
\* the first call, 6 out on a second call that is warned about, and nothing
\* on any other call.
C37_CallStep ==
    \A n \in DOMAIN escrows :
        (/\ StmtStep
         /\ Callee(stmt') = n
         /\ BoundUnstable(n)
         /\ status' = "running")
        => LET moved == current_energy' - current_energy + C37_Cost(stmt')
               warned == Wrote(out', "Warning: claimed unstable, acts stable")
           IN  /\ escrows[n].call_count = 0 => moved = 4 /\ ~warned
               /\ escrows[n].call_count = 1 => moved = (IF warned THEN -6 ELSE 0)
               /\ escrows[n].call_count >= 2 => moved = 0 /\ ~warned

C37_EscrowOnce ==
    /\ []C37_Release
    /\ [][C37_KeepStep /\ C37_RedeclareStep /\ C37_CallStep]_vars

\* energy[100], declare unstable fn evolve, evolve(5) three times: 1 paid,
\* 4 credited, 6 debited, and the third call moved nothing.
C37_Witness ==
    /\ steps = 5
    /\ status = "running"
    /\ stmt = FunctionCall("evolve", <<Number(5)>>)
    /\ max_energy = 100
    /\ current_energy = 97
    /\ "evolve" \in DOMAIN escrows
    /\ escrows["evolve"].call_count = 3
    /\ escrows["evolve"].released

====
